---- MODULE Spec2Model ----
(***************************************************************************)
(* State-machine model of RPiKeyboardConfig (keyboard.py): the checked     *)
(* request/response exchange, session construction and the unlock          *)
(* handshake, against a keyboard that answers one report per written frame.*)
(***************************************************************************)
EXTENDS Integers, Sequences, FiniteSets, TLC

VARIABLES pc, opened, model, variant, switch_matrix, conversion_switch_matrix,
          led_map, loc, eng, rxq, dev, env, h, out

vars == <<pc, opened, model, variant, switch_matrix, conversion_switch_matrix,
          led_map, loc, eng, rxq, dev, env, h, out>>

(***************************************************************************)
(* Bounds of the model.                                                    *)
(***************************************************************************)
MaxStale == 2
MaxGlitch == 6
NumLeds == 3
UnlockCounterMax == 5
\* LEDs of the keyboard the LED operations are checked against (two packets)
OpsNumLeds == 11
\* API calls made on one session: LED operations, preset operations, keymap
\* and switch-matrix operations
MaxCalls == 3
MaxPresetCalls == 2
MaxKeyCalls == 2
MaxCloses == 2
MaxArgCalls == 1
MaxDescs == 2
MaxCliRuns == 2
MaxKeyEvents == 2
MaxFrames == 1

(***************************************************************************)
(* Program constants (keyboard.py).                                        *)
(***************************************************************************)
MSG_LEN == 32
CMD_GET_PROTOCOL_VERSION == 1
CMD_VIA_DYNAMIC_KEYMAP_GET_KEYCODE == 4
CMD_LIGHTING_SET_VALUE == 7
CMD_LIGHTING_GET_VALUE == 8
CMD_VIAL_COMMAND == 254
CMD_RPI_COMMAND == 252
VIAL_GET_KEYBOARD_ID == 0
VIAL_GET_UNLOCK_STATUS == 5
VIAL_UNLOCK_START == 6
VIAL_UNLOCK_POLL == 7
VIALRGB_GET_NUMBER_LEDS == 67
VIALRGB_GET_LED_INFO == 68
VIALRGB_DIRECT_FASTSET == 66
RPI_CMD_GET_VERSION == 1
RPI_CMD_GET_CURRENT_MODE_INDEX == 3
RPI_CMD_SET_CURRENT_MODE_INDEX == 4
RPI_CMD_SET_MODE == 6
LED_FLAG_ALL == 255
START_ANIM_B_FADE_VAL == 2
VIALRGB_EFFECT_DIRECT == 1
flush_limit == 5
send_per_packet == 9
PI500_ROWS == 6
PI500_COLS == 16
MIN_VIA_PROTOCOL == 9
MIN_VIAL_PROTOCOL == 4
TEMP_PRESET_INDEX == 7
CMD_GET_KEYBOARD_VALUE == 2
CMD_VIA_DYNAMIC_KEYMAP_SET_KEYCODE == 5
KEYBOARD_VALUE_GET_SWITCH_MATRIX_STATE == 3
RPI_CMD_GET_MODE == 5
RPI_CMD_GET_CURRENT_DIRECT_LEDS == 11
RPI_CMD_GET_SAVED_DIRECT_LEDS == 12
leds_per_packet == 9
VIAL_LOCK == 8
RPI_CMD_GET_HUE == 7
RPI_CMD_SET_HUE == 8
RPI_CMD_SET_BRIGHTNESS == 10
VIALRGB_GET_SUPPORTED == 66
VIALRGB_EFFECT_SKIP == 65535
effects_per_page == 15
USB_VID_RASPBERRYPI == 11914
USB_PID_PI500_KEYBOARD == 16
USB_PID_PI500PLUS_KEYBOARD == 17
USAGE_PAGE == 65376
USAGE == 97

\* Python's None for an absent subcommand or payload byte
None == -1
\* The byte a report slot holds when the keyboard left it unused
UNUSED == 255

(***************************************************************************)
(* Byte helpers: struct.pack / struct.unpack as the code uses them.        *)
(***************************************************************************)
Zeros(n) == [i \in 1..n |-> 0]

Fill(n, b) == [i \in 1..n |-> b]

\* s[a:b] of Python, on a 1-based sequence: bytes a+1 .. min(b, len)
Slice(s, a, b) ==
    LET hi == IF b < Len(s) THEN b ELSE Len(s)
    IN  IF hi <= a THEN <<>> ELSE [i \in 1..(hi - a) |-> s[a + i]]

LE16(n) == <<n % 256, (n \div 256) % 256>>

BE16(n) == <<(n \div 256) % 256, n % 256>>

LE32(n) == <<n % 256, (n \div 256) % 256, (n \div 65536) % 256, (n \div 16777216) % 256>>

UnLE16(s) == s[1] + 256 * s[2]

UnBE16(s) == 256 * s[1] + s[2]

UnLE32(s) == s[1] + 256 * s[2] + 65536 * s[3] + 16777216 * s[4]

Bool(b) == IF b THEN 1 ELSE 0

\* A response report: the given leading bytes, zero padded to MSG_LEN
Report(s) == s \o Zeros(MSG_LEN - Len(s))

\* A response report padded with 0xFF (the unlock-status report)
ReportFF(s) == s \o Fill(MSG_LEN - Len(s), UNUSED)

RECURSIVE Flatten(_)
Flatten(ss) == IF ss = <<>> THEN <<>> ELSE Head(ss) \o Flatten(Tail(ss))

(***************************************************************************)
(* The keyboard (external collaborator): what it answers to a written      *)
(* frame and how its own state moves.  One report per frame.               *)
(***************************************************************************)
ViaVersions == {8, 9, 265}

VialVersions == {3, 4}

FwVersions == {<<0, 15, 15>>, <<1, 1, 15>>, <<1, 2, 0>>, <<2, 0, 0>>}

Products ==
    {{"Pi 500 Keyboard"}, {"Pi 500+ Keyboard", "ISO"}, {"Pi 500+ Keyboard", "ANSI"},
     {"Pi 500+ Keyboard", "JIS"}, {"Pi 500+ Keyboard"}, {"Other"}}

\* The keys to hold for unlocking, as the keyboard reports them (row, col)
DevUnlockKeys == <<(<<5, 0>>), (<<5, 1>>)>>

\* Position and flags of LED i (0-based): the first two sit on the unlock keys
DevLedInfo(i) ==
    [x |-> 10 * i, y |-> i, flags |-> 4,
     row |-> IF i < 2 THEN 5 ELSE 0, col |-> IF i < 2 THEN i ELSE i - 2]

\* The keycode the keyboard holds at (layer, row, col): the one written last,
\* the factory one (4 + col) when none was written
DevKeycode(d, layer, row, col) ==
    IF \E e \in d.keymap : e[1] = <<layer, row, col>>
    THEN (CHOOSE e \in d.keymap : e[1] = <<layer, row, col>>)[2]
    ELSE 4 + col

DevSetKeycode(d, layer, row, col, keycode) ==
    [d EXCEPT !.keymap = {e \in @ : e[1] # <<layer, row, col>>}
                         \cup {<<(<<layer, row, col>>), keycode>>}]

\* The colours of LEDs first .. first + leds_per_packet - 1 of a store, three
\* bytes each, zero where the keyboard has no such LED
DevLedBytes(store, first) ==
    Flatten([k \in 1..leds_per_packet |->
                IF first + k <= Len(store) THEN store[first + k] ELSE <<0, 0, 0>>])

\* Bit col % 8 of the byte of row word `row` that holds column col, the word
\* being width bytes wide and big-endian
DevMatrixByte(d, row, b) ==
    LET bits == {p[2] : p \in {q \in d.pressed : q[1] = row
                                   /\ q[2] \div 8 = d.width - b}}
        RECURSIVE Sum(_)
        Sum(S) == IF S = {} THEN 0
                  ELSE LET c == CHOOSE c \in S : TRUE
                       IN  2 ^ (c % 8) + Sum(S \ {c})
    IN  Sum(bits)

\* The switch-matrix bitmap: one word per row, d.width bytes each
DevMatrixBytes(d) ==
    Flatten([r \in 1..d.rows |-> [b \in 1..d.width |-> DevMatrixByte(d, r - 1, b)]])

\* The effect ids the keyboard supports, ascending: more than one page of them
DevEffects == [k \in 1..(effects_per_page + 2) |-> k]

\* The page the keyboard sends for the ids above gt.  "chain": the next
\* supported ids, ascending, the rest of the page filled with 0xFFFF;
\* "repeat": one id over and over, no sentinel; "zero": a page of zeros
DevEffectPage(d, gt) ==
    LET above == SelectSeq(d.effects, LAMBDA id : id > gt)
    IN  CASE d.paging = "chain" ->
               [k \in 1..effects_per_page |->
                   IF k <= Len(above) THEN above[k] ELSE VIALRGB_EFFECT_SKIP]
          [] d.paging = "mixed" ->
               \* at most two ids, the larger first, then the sentinel, then
               \* ids that are not part of the list
               [k \in 1..effects_per_page |->
                   IF k <= 2 /\ k <= Len(above)
                   THEN above[IF Len(above) >= 2 THEN 3 - k ELSE k]
                   ELSE IF k = 1 + (IF Len(above) >= 2 THEN 2 ELSE Len(above))
                   THEN VIALRGB_EFFECT_SKIP
                   ELSE 777]
          [] d.paging = "repeat" -> [k \in 1..effects_per_page |-> 5]
          [] OTHER -> [k \in 1..effects_per_page |-> 0]

DevPresetDefault == <<LED_FLAG_ALL, 2, 0, 128, 0, START_ANIM_B_FADE_VAL, 0, 255>>

DevInit(unl, inp, cur, saved, prod) ==
    [product |-> prod, unlocked |-> unl, in_progress |-> inp,
     left |-> IF inp THEN 2 ELSE 0,
     cur_idx |-> cur, saved_idx |-> saved,
     presets |-> [k \in 0..TEMP_PRESET_INDEX |-> DevPresetDefault],
     leds |-> [k \in 1..NumLeds |-> <<0, 0, 0>>],
     saved_leds |-> [k \in 1..NumLeds |-> <<0, 0, 0>>],
     keymap |-> {}, pressed |-> {}, rows |-> 0, width |-> 1,
     via |-> None, vial |-> None, fw |-> <<>>,
     effects |-> DevEffects, paging |-> "chain"]

\* vial unlock poll: the countdown runs while the keys are held; the keyboard
\* decides alone whether the handshake ends unlocked or back at locked
DevPoll(d, e) ==
    IF ~d.in_progress
    THEN {[dev |-> d, resp |-> Report(<<Bool(d.unlocked), 0, 0>>)]}
    ELSE LET held ==
               IF d.left > 0
               THEN [dev |-> [d EXCEPT !.left = d.left - 1],
                     resp |-> Report(<<0, 1, d.left - 1>>)]
               ELSE [dev |-> [d EXCEPT !.unlocked = TRUE, !.in_progress = FALSE],
                     resp |-> Report(<<1, 0, 0>>)]
             released ==
               [dev |-> [d EXCEPT !.left = UnlockCounterMax + 1],
                resp |-> Report(<<0, 1, UnlockCounterMax>>)]
             aborted ==
               [dev |-> [d EXCEPT !.in_progress = FALSE, !.left = 0],
                resp |-> Report(<<0, 0, 0>>)]
         IN  IF e = "scripted" THEN {held} ELSE {held, released, aborted}

DevFastset(d, f) ==
    LET first == UnLE16(Slice(f, 3, 5))
        count == f[6]
    IN  [d EXCEPT !.leds =
            [k \in 1..Len(d.leds) |->
                IF k - 1 >= first /\ k - 1 < first + count
                THEN Slice(f, 6 + 3 * (k - 1 - first), 9 + 3 * (k - 1 - first))
                ELSE d.leds[k]]]

\* The outcomes {[dev, resp]} of writing frame f (report id, then MSG_LEN bytes)
DevStep(d, f, e) ==
    LET op == f[2]
        sub == f[3]
        echo == Report(Slice(f, 1, MSG_LEN + 1))
        same == {[dev |-> d, resp |-> echo]}
    IN
    CASE op = CMD_GET_PROTOCOL_VERSION ->
           {[dev |-> [d EXCEPT !.via = v], resp |-> Report(<<op>> \o BE16(v))] :
              v \in IF d.via = None THEN ViaVersions ELSE {d.via}}
      [] op = CMD_VIAL_COMMAND /\ sub = VIAL_GET_KEYBOARD_ID ->
           {[dev |-> [d EXCEPT !.vial = v],
             resp |-> Report(LE32(v) \o Zeros(8) \o <<1>>)] :
              v \in IF d.vial = None THEN VialVersions ELSE {d.vial}}
      [] op = CMD_VIAL_COMMAND /\ sub = VIAL_GET_UNLOCK_STATUS ->
           {[dev |-> d,
             resp |-> ReportFF(<<Bool(d.unlocked), Bool(d.in_progress)>>
                               \o Flatten(DevUnlockKeys))]}
      [] op = CMD_VIAL_COMMAND /\ sub = VIAL_UNLOCK_START ->
           {[dev |-> [d EXCEPT !.in_progress = TRUE, !.left = UnlockCounterMax + 1],
             resp |-> echo]}
      [] op = CMD_VIAL_COMMAND /\ sub = VIAL_UNLOCK_POLL -> DevPoll(d, e)
      [] op = CMD_VIAL_COMMAND /\ sub = VIAL_LOCK ->
           {[dev |-> [d EXCEPT !.unlocked = FALSE], resp |-> echo]}
      [] op = CMD_RPI_COMMAND /\ sub = RPI_CMD_GET_VERSION ->
           {[dev |-> [d EXCEPT !.fw = v],
             resp |-> Report(<<op, sub, v[1], 16 * v[2] + v[3]>>)] :
              v \in IF d.fw = <<>> THEN FwVersions ELSE {d.fw}}
      [] op = CMD_RPI_COMMAND /\ sub = RPI_CMD_GET_CURRENT_MODE_INDEX ->
           {[dev |-> d, resp |-> Report(<<op, sub, d.cur_idx, d.saved_idx>>)]}
      [] op = CMD_RPI_COMMAND /\ sub = RPI_CMD_SET_CURRENT_MODE_INDEX ->
           IF f[4] \in DOMAIN d.presets
           THEN {[dev |-> [d EXCEPT !.cur_idx = f[4],
                                    !.saved_idx = IF f[5] # 0 THEN f[4] ELSE d.saved_idx],
                  resp |-> echo]}
           ELSE same
      [] op = CMD_RPI_COMMAND /\ sub = RPI_CMD_SET_MODE ->
           IF f[4] \in DOMAIN d.presets
           THEN {[dev |-> [d EXCEPT !.presets[f[4]] = Slice(f, 4, 12)], resp |-> echo]}
           ELSE same
      [] op = CMD_LIGHTING_GET_VALUE /\ sub = VIALRGB_GET_NUMBER_LEDS ->
           {[dev |-> d, resp |-> Report(<<op, sub>> \o LE16(Len(d.leds)))]}
      [] op = CMD_LIGHTING_GET_VALUE /\ sub = VIALRGB_GET_SUPPORTED ->
           {[dev |-> d,
             resp |-> Report(<<op, sub>>
                             \o Flatten([k \in 1..effects_per_page |->
                                    LE16(DevEffectPage(d, UnLE16(Slice(f, 3, 5)))[k])]))]}
      [] op = CMD_LIGHTING_GET_VALUE /\ sub = VIALRGB_GET_LED_INFO ->
           LET li == DevLedInfo(f[4])
           IN  {[dev |-> d,
                 resp |-> Report(<<op, sub, li.x, li.y, li.flags, li.row, li.col>>)]}
      [] op = CMD_LIGHTING_SET_VALUE /\ sub = VIALRGB_DIRECT_FASTSET ->
           {[dev |-> DevFastset(d, f), resp |-> echo]}
      [] op = CMD_VIA_DYNAMIC_KEYMAP_GET_KEYCODE ->
           {[dev |-> d,
             resp |-> Report(<<op, f[3], f[4], f[5]>>
                             \o BE16(DevKeycode(d, f[3], f[4], f[5])))]}
      [] op = CMD_VIA_DYNAMIC_KEYMAP_SET_KEYCODE ->
           {[dev |-> DevSetKeycode(d, f[3], f[4], f[5], UnBE16(Slice(f, 5, 7))),
             resp |-> echo]}
      [] op = CMD_GET_KEYBOARD_VALUE /\ sub = KEYBOARD_VALUE_GET_SWITCH_MATRIX_STATE ->
           {[dev |-> d, resp |-> Report(<<op, sub>> \o DevMatrixBytes(d))]}
      [] op = CMD_RPI_COMMAND /\ sub = RPI_CMD_GET_MODE ->
           IF f[4] \in DOMAIN d.presets
           THEN {[dev |-> d, resp |-> Report(<<op, sub, f[4]>> \o d.presets[f[4]])]}
           ELSE same
      [] op = CMD_RPI_COMMAND /\ sub = RPI_CMD_GET_CURRENT_DIRECT_LEDS ->
           {[dev |-> d,
             resp |-> Report(Slice(f, 1, 6) \o DevLedBytes(d.leds, UnLE16(Slice(f, 3, 5))))]}
      [] op = CMD_RPI_COMMAND /\ sub = RPI_CMD_GET_SAVED_DIRECT_LEDS ->
           {[dev |-> d,
             resp |-> Report(Slice(f, 1, 6)
                             \o DevLedBytes(d.saved_leds, UnLE16(Slice(f, 3, 5))))]}
      [] OTHER -> same

\* A report that does not answer the outstanding command: the opcode byte is
\* wrong, or (for a command with a subcommand) the subcommand byte is wrong
Garbled(f, subcmd) ==
    {Report(<<UNUSED, f[3]>>)} \cup
    (IF subcmd = None THEN {} ELSE {Report(<<f[2], UNUSED>>)})


(***************************************************************************)
(* Static tables of the session (switch_matrix module) and coordinate      *)
(* conversion.                                                             *)
(***************************************************************************)
SWITCH_MATRIX_PI500 == <<(<<5, 0>>), (<<5, 1>>), (<<0, 0>>)>>

SWITCH_MATRIX_CONVERSION_PI500_ISO == SWITCH_MATRIX_PI500

SWITCH_MATRIX_PI500PLUS_ISO == <<(<<5, 0>>), (<<5, 1>>), (<<0, 0>>), (<<0, 1>>)>>

SWITCH_MATRIX_PI500PLUS_ANSI == <<(<<5, 0>>), (<<5, 1>>), (<<0, 0>>)>>

SWITCH_MATRIX_PI500PLUS_JIS ==
    <<(<<5, 0>>), (<<5, 1>>), (<<0, 0>>), (<<0, 1>>), (<<1, 0>>)>>

NoTable == <<>>

IndexOf(position, table) ==
    IF \E k \in 1..Len(table) : table[k] = position
    THEN CHOOSE k \in 1..Len(table) :
            table[k] = position /\ \A j \in 1..(k - 1) : table[j] # position
    ELSE 0

\* The entry of to_matrix at the place position has in from_matrix
convert_switch_matrix(position, from_matrix, to_matrix) ==
    LET k == IndexOf(position, from_matrix)
    IN  IF k = 0 \/ k > Len(to_matrix) THEN position ELSE to_matrix[k]

CountryCodes == {4, 7, 9}

get_pi_country_code(country_code) ==
    IF country_code \in {4, 14, 16} THEN "ANSI"
    ELSE IF country_code = 7 THEN "JIS" ELSE "ISO"

\* Device.product, as the substrings the code looks for
Contains(info, part) == part \in info

NewLED(idx, matrix, flags, x, y) ==
    [idx |-> idx, matrix |-> matrix, flags |-> flags, x |-> x, y |-> y,
     colour |-> <<0, 0, 0>>]

\* __init__: the synthesized 6 x 16 directory of the PI500
Pi500Leds ==
    [k \in 1..(PI500_ROWS * PI500_COLS) |->
        NewLED(k - 1, <<(k - 1) \div PI500_COLS, (k - 1) % PI500_COLS>>, 0, 0, 0)]

(***************************************************************************)
(* Report codec and transport port.                                        *)
(***************************************************************************)
\* struct.pack("B", v) and v.to_bytes(1, ...): whether v fits one unsigned byte
FitsByte(v) == v \in 0..255

\* struct.pack("H", v): whether v fits an unsigned 16-bit field
FitsUint16(v) == v \in 0..65535

\* Pack with report id 1
Pack_ReportId1(command_data) ==
    <<1>> \o command_data \o Zeros(MSG_LEN - Len(command_data))

\* _send_command: the format '<B{n}s{MSG_LEN - n}x' has a negative count when
\* the command is longer than MSG_LEN, and struct.pack raises struct.error
PackFails(command_data) == Len(command_data) > MSG_LEN

\* _send_command: report id 0x00, the command bytes, zero padding to MSG_LEN
Pack(command_data) == <<0>> \o command_data \o Zeros(MSG_LEN - Len(command_data))

\* _send_check_command: opcode, optional subcommand, optional data
Payload(cmd, subcmd, data) ==
    <<cmd>> \o (IF subcmd = None THEN <<>> ELSE <<subcmd>>) \o data

\* Device.read(size, timeout): the oldest unread report cut to size bytes,
\* empty when nothing arrives before the timeout
Device_read(q, size) == IF q = <<>> THEN <<>> ELSE Slice(Head(q), 0, size)

\* AfterRead for a read that leaves the report in the transport
AfterRead_Peek(q) == q

\* The unread reports left after one read
AfterRead(q) == IF q = <<>> THEN q ELSE Tail(q)

\* LoopCond with the two tests joined by "and"
LoopCond_And(rcmd, rsubcmd, cmd, subcmd) == rcmd # cmd /\ rsubcmd # subcmd

\* The loop condition of _send_check_command
LoopCond(rcmd, rsubcmd, cmd, subcmd) == rcmd # cmd \/ rsubcmd # subcmd

\* A response answers a command when it echoes the opcode and, for a command
\* that has one, the subcommand
Echoes(raw, cmd, subcmd) ==
    /\ Len(raw) >= 2
    /\ raw[1] = cmd
    /\ (subcmd = None \/ raw[2] = subcmd)

(***************************************************************************)
(* Decoders of the response reports.                                       *)
(***************************************************************************)
\* get_firmware_version with the two nibbles of byte 3 exchanged
get_firmware_version_swapped(raw_data) ==
    <<raw_data[3], raw_data[4] % 16, raw_data[4] \div 16>>

\* get_firmware_version
get_firmware_version(raw_data) ==
    <<raw_data[3], raw_data[4] \div 16, raw_data[4] % 16>>

\* get_via_protocol_version
get_via_protocol_version(raw_data) == UnBE16(Slice(raw_data, 1, 3))

\* get_vial_information: (vial_protocol, vialrgb_flag); the uid is not used
get_vial_information(raw_data) ==
    [vial |-> UnLE32(Slice(raw_data, 0, 4)), flags |-> raw_data[13]]

\* Tuple comparison a < b of Python, on triples
TupleLess(a, b) ==
    \/ a[1] < b[1]
    \/ a[1] = b[1] /\ a[2] < b[2]
    \/ a[1] = b[1] /\ a[2] = b[2] /\ a[3] < b[3]

MinFirmware == <<1, 2, 0>>

\* __init__: the compatibility gate; "" when every floor is met
CompatibilityError(via_protocol_version, vial_protocol_version, rpi_version) ==
    IF via_protocol_version < MIN_VIA_PROTOCOL THEN "KeyboardNotCompatibleError"
    ELSE IF vial_protocol_version < MIN_VIAL_PROTOCOL THEN "KeyboardNotCompatibleError"
    ELSE IF TupleLess(rpi_version, MinFirmware) THEN "KeyboardNotCompatibleError"
    ELSE ""

RECURSIVE UnlockKeys(_, _, _, _)
\* get_unlock_status: the (row, col) pairs after the two status bytes; a pair
\* with 0xFF in it is skipped
UnlockKeys(raw_data, i, sm, conv) ==
    IF i + 2 > Len(raw_data) THEN <<>>
    ELSE LET row == raw_data[i + 1]
             col == raw_data[i + 2]
             rest == UnlockKeys(raw_data, i + 2, sm, conv)
         IN  IF row # UNUSED /\ col # UNUSED
             THEN <<IF conv = NoTable THEN <<row, col>>
                    ELSE convert_switch_matrix(<<row, col>>, sm, conv)>> \o rest
             ELSE rest

get_unlock_status(raw_data, sm, conv) ==
    [unlocked |-> raw_data[1], in_progress |-> raw_data[2],
     keys |-> UnlockKeys(raw_data, 2, sm, conv)]

\* unlock_poll with the first two bytes taken in the other order
unlock_poll_swapped(raw_data) ==
    [unlocked |-> raw_data[2], in_progress |-> raw_data[1], counter |-> raw_data[3]]

\* unlock_poll
unlock_poll(raw_data) ==
    [unlocked |-> raw_data[1], in_progress |-> raw_data[2], counter |-> raw_data[3]]

\* get_led_info
get_led_info(raw_data, sm, conv) ==
    [x |-> raw_data[3], y |-> raw_data[4], flags |-> raw_data[5],
     matrix |-> IF conv = NoTable THEN <<raw_data[6], raw_data[7]>>
                ELSE convert_switch_matrix(<<raw_data[6], raw_data[7]>>, conv, sm)]

\* led_matrix_to_idx: the index of the LED at a position, None when there is none
led_matrix_to_idx(leds, matrix, m, sm, conv) ==
    LET position == IF conv = NoTable \/ m = "PI500" THEN matrix
                    ELSE convert_switch_matrix(matrix, conv, sm)
    IN  IF \E k \in 1..Len(leds) : leds[k].matrix = position
        THEN leds[CHOOSE k \in 1..Len(leds) :
                    /\ leds[k].matrix = position
                    /\ \A j \in 1..(k - 1) : leds[j].matrix # position].idx
        ELSE None

\* SendLedsPacket that numbers every packet from LED 0
SendLedsPacket_NoOffset(leds, sent) ==
    LET n == IF Len(leds) - sent < send_per_packet
             THEN Len(leds) - sent ELSE send_per_packet
    IN  LE16(0) \o <<n>> \o Flatten([k \in 1..n |-> leds[sent + k].colour])

\* send_leds: the payload of the packet that starts at LED number sent
SendLedsPacket(leds, sent) ==
    LET n == IF Len(leds) - sent < send_per_packet
             THEN Len(leds) - sent ELSE send_per_packet
    IN  LE16(sent) \o <<n>> \o Flatten([k \in 1..n |-> leds[sent + k].colour])

SendLedsCount(leds, sent) ==
    IF Len(leds) - sent < send_per_packet THEN Len(leds) - sent ELSE send_per_packet

\* set_preset: struct.pack("<BBHBBBBB", ...)
PresetBytes(preset_index, p) ==
    <<preset_index, p.flags>> \o LE16(p.effect)
        \o <<p.speed, Bool(p.fixed_hue), p.startup_animation, p.hue, p.sat>>

\* DirectPreset with the effect switched off
DirectPreset_Off ==
    [flags |-> LED_FLAG_ALL, effect |-> 0, speed |-> 255,
     fixed_hue |-> TRUE, startup_animation |-> START_ANIM_B_FADE_VAL,
     hue |-> 255, sat |-> 255]

\* set_led_direct_effect: the preset it writes to the transient slot
DirectPreset ==
    [flags |-> LED_FLAG_ALL, effect |-> VIALRGB_EFFECT_DIRECT, speed |-> 255,
     fixed_hue |-> TRUE, startup_animation |-> START_ANIM_B_FADE_VAL,
     hue |-> 255, sat |-> 255]

\* UseLeds that forgets restricted_commands
UseLeds_IgnoreRestricted(m, restricted_commands) == m = "PI500PLUS"

\* unlock: whether the handshake may drive the LEDs
UseLeds(m, restricted_commands) == m = "PI500PLUS" /\ ~restricted_commands


(***************************************************************************)
(* LED directory, presets, keymap and switch matrix: what each operation   *)
(* packs into its request and unpacks from the response.                   *)
(***************************************************************************)
\* set_led_by_idx that paints the whole directory
set_led_by_idx_all(leds, idx, colour) ==
    [k \in 1..Len(leds) |-> [leds[k] EXCEPT !.colour = colour]]

\* set_led_by_idx that moves the entry to the front of the directory
set_led_by_idx_front(leds, idx, colour) ==
    <<[leds[idx + 1] EXCEPT !.colour = colour]>>
    \o [k \in 1..(Len(leds) - 1) |-> IF k <= idx THEN leds[k] ELSE leds[k + 1]]

\* set_led_by_idx: self._led_map[idx].colour = colour
set_led_by_idx(leds, idx, colour) == [leds EXCEPT ![idx + 1].colour = colour]

\* get_current_direct_leds / get_saved_direct_leds: struct.pack("<HB", ...)
DirectLedsRequest(retrieved) == LE16(retrieved) \o <<leds_per_packet>>

\* DirectLedColour that reads the colours one byte early
DirectLedColour_Early(raw_data, i) == Slice(raw_data, 4 + i * 3, 7 + i * 3)

\* get_current_direct_leds: struct.unpack("<BBB", raw_data[5 + i*3 : 8 + i*3])
DirectLedColour(raw_data, i) == Slice(raw_data, 5 + i * 3, 8 + i * 3)

\* get_current_direct_leds: the colours of one response written into leds
ReadDirectLeds(leds, raw_data, retrieved) ==
    [k \in 1..Len(leds) |->
        IF k - 1 >= retrieved /\ k - 1 < retrieved + leds_per_packet
        THEN [leds[k] EXCEPT !.colour = DirectLedColour(raw_data, k - 1 - retrieved)]
        ELSE leds[k]]

\* get_current_preset_index: current_index of struct.unpack("<BB", raw_data[2:4])
get_current_preset_index(raw_data) == raw_data[3]

\* get_saved_preset_index that returns the current index
get_saved_preset_index_current(raw_data) == raw_data[3]

\* get_saved_preset_index: saved_index of struct.unpack("<BB", raw_data[2:4])
get_saved_preset_index(raw_data) == raw_data[4]

\* set_current_preset_index: struct.pack("<BB", preset_index, save_index)
PresetIndexBytes(preset_index, save_index) == <<preset_index, Bool(save_index)>>

\* set_temp_effect that persists the index
TempSaveIndex_True == TRUE

\* set_temp_effect: the save_index it passes to set_current_preset_index
TempSaveIndex == FALSE

\* get_preset that reads the effect big-endian
get_preset_be(raw_data) ==
    [flags |-> raw_data[4], effect |-> UnBE16(Slice(raw_data, 4, 6)),
     speed |-> raw_data[7], fixed_hue |-> raw_data[8],
     startup_animation |-> raw_data[9], hue |-> raw_data[10], sat |-> raw_data[11]]

\* get_preset: struct.unpack("<BBHBBBBB", raw_data[2:11]); fixed_hue stays a byte
get_preset(raw_data) ==
    [flags |-> raw_data[4], effect |-> UnLE16(Slice(raw_data, 4, 6)),
     speed |-> raw_data[7], fixed_hue |-> raw_data[8],
     startup_animation |-> raw_data[9], hue |-> raw_data[10], sat |-> raw_data[11]]

\* ToPhysical that takes the column for the row
ToPhysical_Transposed(matrix, sm, conv) == <<matrix[2], matrix[1]>>

\* get_switch_matrix_state / get_unlock_status: the position handed to the
\* caller for a position the keyboard reports
ToLogical(position, sm, conv) ==
    IF conv = NoTable THEN position ELSE convert_switch_matrix(position, sm, conv)

\* EffectsPage that reads the ids big-endian
EffectsPage_BE(raw_data) ==
    [k \in 1..effects_per_page |-> UnBE16(Slice(raw_data, 2 * k, 2 * k + 2))]

\* get_supported_effects: struct.unpack("<15H", raw_data[2:])
EffectsPage(raw_data) ==
    [k \in 1..effects_per_page |-> UnLE16(Slice(raw_data, 2 * k, 2 * k + 2))]

\* The list get_supported_effects starts from: off and skip, always supported
InitialEffects == {0, VIALRGB_EFFECT_SKIP}

\* The same list, in the order of the code
InitialEffectsList == <<0, VIALRGB_EFFECT_SKIP>>

RECURSIVE ScanPage(_, _, _, _)
\* get_supported_effects: the ids of one page from the i-th on.  The sentinel
\* ends the enumeration; any other id is appended and becomes max_effect.
\* (effects is the list as the set of its members.)
ScanPage(page, i, effects, max_effect) ==
    IF i > Len(page)
    THEN [effects |-> effects, max_effect |-> max_effect, returned |-> FALSE]
    ELSE IF page[i] = VIALRGB_EFFECT_SKIP
    THEN [effects |-> effects, max_effect |-> max_effect, returned |-> TRUE]
    ELSE ScanPage(page, i + 1, effects \cup {page[i]}, page[i])

RECURSIVE AppendedEffects(_, _)
\* get_supported_effects: the ids of one page that effects.append() adds, in
\* the order of the page: those before the first sentinel
AppendedEffects(page, i) ==
    IF i > Len(page) \/ page[i] = VIALRGB_EFFECT_SKIP THEN <<>>
    ELSE <<page[i]>> \o AppendedEffects(page, i + 1)

\* get_keycode / set_keycode: the physical position a request names
ToPhysical(matrix, sm, conv) ==
    IF conv = NoTable THEN matrix ELSE convert_switch_matrix(matrix, conv, sm)

\* get_keycode: struct.pack(">BBB", layer, row, col)
GetKeycodeBytes(layer, rc) == <<layer, rc[1], rc[2]>>

\* set_keycode: struct.pack(">BBBH", layer, row, col, keycode)
SetKeycodeBytes(layer, rc, keycode) == <<layer, rc[1], rc[2]>> \o BE16(keycode)

\* get_keycode that reads the keycode little-endian
get_keycode_le(raw_data) == UnLE16(Slice(raw_data, 4, 6))

\* get_keycode: keycode of struct.unpack(">BBBH", raw_data[1:6])
get_keycode(raw_data) == UnBE16(Slice(raw_data, 4, 6))

RECURSIVE int_from_bytes_big(_)
\* int.from_bytes(s, byteorder='big'), also struct.unpack(">B"/">H"/">I")
int_from_bytes_big(s) ==
    IF s = <<>> THEN 0
    ELSE 256 * int_from_bytes_big(SubSeq(s, 1, Len(s) - 1)) + s[Len(s)]

RECURSIVE MaxOf(_)
MaxOf(S) ==
    LET x == CHOOSE x \in S : TRUE
    IN  IF S = {x} THEN x
        ELSE LET m == MaxOf(S \ {x}) IN IF x > m THEN x ELSE m

\* RowWordWidth that reads 2-byte words where 3-byte words are due
RowWordWidth_No3(cols) ==
    IF cols <= 8 THEN 1 ELSE IF cols <= 24 THEN 2 ELSE 4

\* get_switch_matrix_state: bytes per row word for a map of cols columns
RowWordWidth(cols) ==
    IF cols <= 8 THEN 1 ELSE IF cols <= 16 THEN 2 ELSE IF cols <= 24 THEN 3 ELSE 4

\* get_switch_matrix_state: row_states, one word per row from byte 2 on
RowStates(raw_data, sm) ==
    LET rows == MaxOf({sm[k][1] : k \in 1..Len(sm)}) + 1
        cols == MaxOf({sm[k][2] : k \in 1..Len(sm)}) + 1
        w == RowWordWidth(cols)
    IN  [r \in 1..rows |->
            int_from_bytes_big(Slice(raw_data, 2 + (r - 1) * w, 2 + r * w))]

\* (word & (1 << col)) != 0
BitSet(word, col) == (word \div (2 ^ col)) % 2 = 1

\* get_switch_matrix_state: the active positions of the map, in map order
get_switch_matrix_state(raw_data, sm, conv) ==
    LET row_states == RowStates(raw_data, sm)
        on == SelectSeq(sm, LAMBDA switch : BitSet(row_states[switch[1] + 1], switch[2]))
    IN  [k \in 1..Len(on) |->
            IF conv = NoTable THEN on[k]
            ELSE convert_switch_matrix(on[k], sm, conv)]


(***************************************************************************)
(* State.                                                                  *)
(*   pc       the call site the session is at                              *)
(*   loc      the local variables of __init__ and unlock                   *)
(*   eng      the exchange in progress (_send_command/_send_check_command) *)
(*   rxq      the reports the transport holds unread                       *)
(*   dev      the keyboard                                                 *)
(*   h        history: what has been written and read so far               *)
(*   out      what was printed and the exception raised, if any            *)
(***************************************************************************)
\* The preset get_preset has not returned yet
NoPreset ==
    [flags |-> 0, effect |-> 0, speed |-> 0, fixed_hue |-> 0,
     startup_animation |-> 0, hue |-> 0, sat |-> 0]

LocInit ==
    [restricted |-> FALSE, unlocked |-> 0, in_progress |-> 0, keys |-> <<>>,
     last_counter |-> -1, i |-> 0, sent |-> 0, via |-> 0, vial |-> 0,
     num_leds |-> 0, leds |-> <<>>, saved |-> 0,
     retrieved |-> 0, res |-> None, preset |-> NoPreset, active |-> <<>>,
     arg_k |-> 0, arg_p |-> DirectPreset, arg_m |-> <<0, 0>>, arg_l |-> 0,
     arg_kc |-> 0, raw |-> <<>>, arg_save |-> FALSE, descs |-> <<>>, path |-> "",
     effects |-> {}, max_effect |-> 0, effects_list |-> <<>>,
     prog |-> "", use_leds |-> FALSE, looping |-> FALSE, stop |-> "",
     active_keys_prev |-> <<>>, newly_pressed |-> <<>>, newly_released |-> <<>>,
     changed |-> FALSE, after |-> "", own |-> FALSE, colour_ok |-> TRUE]

EngIdle ==
    [state |-> "idle", cmd |-> None, subcmd |-> None, data |-> <<>>,
     checked |-> FALSE, flush_count |-> 0, raw_data |-> <<>>,
     rcmd |-> None, rsubcmd |-> None]

HistInit(nstale) ==
    [frames |-> <<>>, nmis |-> 0, overlap |-> FALSE, wrote |-> FALSE,
     stale0 |-> nstale, stale |-> nstale, staleRead |-> FALSE, flushReads |-> 0,
     polls |-> 0, ret |-> "", ipAtStart |-> FALSE, resumed |-> FALSE,
     restrFrames |-> {}, lockedStart |-> FALSE,
     snap |-> [cur_idx |-> 0, saved_idx |-> 0, presets |-> <<>>, colours |-> <<>>],
     logging |-> FALSE, log |-> <<>>, calls |-> 0, op |-> "", done |-> FALSE,
     chain |-> 0, seti |-> 0, setc |-> <<0, 0, 0>>,
     pre |-> [colours |-> <<>>, cur_idx |-> 0, saved_idx |-> 0, presets |-> <<>>,
              dev_leds |-> <<>>, led_map |-> <<>>],
     wrote_presets |-> {}, wrote_keys |-> {}, rev |-> 0,
     was_opened |-> FALSE, closes |-> 0, hid_closes |-> 0, cap |-> MaxCalls,
     events |-> 0, loops |-> 0]

StaleReport == Report(<<CMD_VIAL_COMMAND, VIAL_UNLOCK_START>>)

Init ==
    /\ pc = "new"
    /\ opened = FALSE
    /\ model = "None"
    /\ variant = "None"
    /\ switch_matrix = NoTable
    /\ conversion_switch_matrix = NoTable
    /\ led_map = <<>>
    /\ loc = LocInit
    /\ eng = EngIdle
    /\ env \in {"scripted", "free"}
    /\ \E n \in 0..MaxStale :
          /\ rxq = [k \in 1..n |-> StaleReport]
          /\ h = HistInit(n)
    /\ \E st \in {<<FALSE, FALSE>>, <<TRUE, FALSE>>, <<FALSE, TRUE>>}, prod \in Products :
          dev = DevInit(st[1], st[2], 2, 2, prod)
    /\ out = [error |-> "", msgs |-> {}]

Colours(leds) == [k \in 1..Len(leds) |-> leds[k].colour]

(***************************************************************************)
(* Command engine.                                                         *)
(***************************************************************************)
StatusSites == {"i_status", "u_status1", "u_status2", "u_status3"}

RawSites == StatusSites \cup {"i_vial", "u_poll", "x_send", "w_status"}

CheckedSites ==
    {"i_via", "i_fw", "i_numleds", "i_ledinfo", "u_sp7", "u_si7", "u_clear",
     "u_key", "u_send", "u_request", "u_rev_get", "u_rev_set", "c_lock",
     "l_send", "l_get_current", "l_get_saved", "p_set", "p_get", "p_sel", "p_idx",
     "p_rev_get", "p_rev_set", "k_set", "k_get", "m_state",
     "p_seti", "p_hue", "p_bri", "e_page", "c_tset", "c_tsel", "c_set", "c_seti",
     "w_idx", "w_get", "w_hue", "w_sp7", "w_si7", "w_num", "w_leds", "w_state",
     "w_key", "w_rev_get", "w_rev_set", "w_led1"}

\* The command each call site sends
SiteCmd(p) ==
    CASE p \in StatusSites \cup {"w_status"} ->
           [cmd |-> CMD_VIAL_COMMAND, subcmd |-> VIAL_GET_UNLOCK_STATUS, data |-> <<>>]
      [] p = "u_poll" ->
           [cmd |-> CMD_VIAL_COMMAND, subcmd |-> VIAL_UNLOCK_POLL, data |-> <<>>]
      [] p = "i_vial" ->
           [cmd |-> CMD_VIAL_COMMAND, subcmd |-> VIAL_GET_KEYBOARD_ID, data |-> <<>>]
      [] p = "x_send" ->
           [cmd |-> Head(loc.raw), subcmd |-> None, data |-> Tail(loc.raw)]
      [] p = "i_via" ->
           [cmd |-> CMD_GET_PROTOCOL_VERSION, subcmd |-> 0, data |-> <<>>]
      [] p = "i_fw" ->
           [cmd |-> CMD_RPI_COMMAND, subcmd |-> RPI_CMD_GET_VERSION, data |-> <<>>]
      [] p \in {"i_numleds", "w_num"} ->
           [cmd |-> CMD_LIGHTING_GET_VALUE, subcmd |-> VIALRGB_GET_NUMBER_LEDS,
            data |-> <<>>]
      [] p = "i_ledinfo" ->
           [cmd |-> CMD_LIGHTING_GET_VALUE, subcmd |-> VIALRGB_GET_LED_INFO,
            data |-> <<loc.i % 256>>]
      [] p \in {"u_sp7", "w_sp7"} ->
           [cmd |-> CMD_RPI_COMMAND, subcmd |-> RPI_CMD_SET_MODE,
            data |-> PresetBytes(TEMP_PRESET_INDEX, DirectPreset)]
      [] p \in {"u_si7", "w_si7"} ->
           [cmd |-> CMD_RPI_COMMAND, subcmd |-> RPI_CMD_SET_CURRENT_MODE_INDEX,
            data |-> PresetIndexBytes(TEMP_PRESET_INDEX, TempSaveIndex)]
      [] p \in {"u_clear", "u_send", "l_send", "w_leds"} ->
           [cmd |-> CMD_LIGHTING_SET_VALUE, subcmd |-> VIALRGB_DIRECT_FASTSET,
            data |-> SendLedsPacket(led_map, loc.sent)]
      [] p = "u_key" ->
           [cmd |-> CMD_VIA_DYNAMIC_KEYMAP_GET_KEYCODE, subcmd |-> None,
            data |-> LET key == loc.keys[loc.i + 1]
                         rc == IF conversion_switch_matrix = NoTable THEN key
                               ELSE convert_switch_matrix(
                                        key, conversion_switch_matrix, switch_matrix)
                     IN  <<0, rc[1], rc[2]>>]
      [] p = "u_request" ->
           [cmd |-> CMD_VIAL_COMMAND, subcmd |-> VIAL_UNLOCK_START, data |-> <<>>]
      [] p = "c_lock" ->
           [cmd |-> CMD_VIAL_COMMAND, subcmd |-> VIAL_LOCK, data |-> <<>>]
      [] p \in {"u_rev_get", "w_rev_get"} ->
           [cmd |-> CMD_RPI_COMMAND, subcmd |-> RPI_CMD_GET_CURRENT_MODE_INDEX,
            data |-> <<>>]
      [] p \in {"u_rev_set", "w_rev_set"} ->
           [cmd |-> CMD_RPI_COMMAND, subcmd |-> RPI_CMD_SET_CURRENT_MODE_INDEX,
            data |-> PresetIndexBytes(loc.saved, TRUE)]
      [] p = "l_get_current" ->
           [cmd |-> CMD_RPI_COMMAND, subcmd |-> RPI_CMD_GET_CURRENT_DIRECT_LEDS,
            data |-> DirectLedsRequest(loc.retrieved)]
      [] p = "l_get_saved" ->
           [cmd |-> CMD_RPI_COMMAND, subcmd |-> RPI_CMD_GET_SAVED_DIRECT_LEDS,
            data |-> DirectLedsRequest(loc.retrieved)]
      [] p = "p_set" ->
           [cmd |-> CMD_RPI_COMMAND, subcmd |-> RPI_CMD_SET_MODE,
            data |-> PresetBytes(loc.arg_k, loc.arg_p)]
      [] p \in {"p_get", "w_get"} ->
           [cmd |-> CMD_RPI_COMMAND, subcmd |-> RPI_CMD_GET_MODE,
            data |-> <<loc.arg_k>>]
      [] p = "p_sel" ->
           [cmd |-> CMD_RPI_COMMAND, subcmd |-> RPI_CMD_SET_CURRENT_MODE_INDEX,
            data |-> PresetIndexBytes(TEMP_PRESET_INDEX, TempSaveIndex)]
      [] p \in {"p_idx", "p_rev_get", "w_idx"} ->
           [cmd |-> CMD_RPI_COMMAND, subcmd |-> RPI_CMD_GET_CURRENT_MODE_INDEX,
            data |-> <<>>]
      [] p = "p_rev_set" ->
           [cmd |-> CMD_RPI_COMMAND, subcmd |-> RPI_CMD_SET_CURRENT_MODE_INDEX,
            data |-> PresetIndexBytes(loc.saved, TRUE)]
      [] p = "k_set" ->
           [cmd |-> CMD_VIA_DYNAMIC_KEYMAP_SET_KEYCODE, subcmd |-> None,
            data |-> SetKeycodeBytes(
                        loc.arg_l,
                        ToPhysical(loc.arg_m, switch_matrix, conversion_switch_matrix),
                        loc.arg_kc)]
      [] p \in {"k_get", "w_key"} ->
           [cmd |-> CMD_VIA_DYNAMIC_KEYMAP_GET_KEYCODE, subcmd |-> None,
            data |-> GetKeycodeBytes(
                        loc.arg_l,
                        ToPhysical(loc.arg_m, switch_matrix, conversion_switch_matrix))]
      [] p \in {"m_state", "w_state"} ->
           [cmd |-> CMD_GET_KEYBOARD_VALUE,
            subcmd |-> KEYBOARD_VALUE_GET_SWITCH_MATRIX_STATE, data |-> <<>>]
      [] p = "p_seti" ->
           [cmd |-> CMD_RPI_COMMAND, subcmd |-> RPI_CMD_SET_CURRENT_MODE_INDEX,
            data |-> PresetIndexBytes(loc.arg_k, loc.arg_save)]
      [] p = "e_page" ->
           [cmd |-> CMD_LIGHTING_GET_VALUE, subcmd |-> VIALRGB_GET_SUPPORTED,
            data |-> LE16(loc.max_effect)]
      [] p = "c_tset" ->
           [cmd |-> CMD_RPI_COMMAND, subcmd |-> RPI_CMD_SET_MODE,
            data |-> PresetBytes(TEMP_PRESET_INDEX, loc.arg_p)]
      [] p = "c_tsel" ->
           [cmd |-> CMD_RPI_COMMAND, subcmd |-> RPI_CMD_SET_CURRENT_MODE_INDEX,
            data |-> PresetIndexBytes(TEMP_PRESET_INDEX, TempSaveIndex)]
      [] p = "c_set" ->
           [cmd |-> CMD_RPI_COMMAND, subcmd |-> RPI_CMD_SET_MODE,
            data |-> PresetBytes(loc.arg_k, loc.arg_p)]
      [] p = "c_seti" ->
           [cmd |-> CMD_RPI_COMMAND, subcmd |-> RPI_CMD_SET_CURRENT_MODE_INDEX,
            data |-> PresetIndexBytes(loc.arg_k, loc.arg_save)]
      [] p = "w_led1" ->
           [cmd |-> CMD_LIGHTING_SET_VALUE, subcmd |-> VIALRGB_DIRECT_FASTSET,
            data |-> LE16(loc.arg_k) \o <<1>> \o led_map[loc.arg_k + 1].colour]
      [] p = "w_hue" ->
           [cmd |-> CMD_RPI_COMMAND, subcmd |-> RPI_CMD_GET_HUE, data |-> <<>>]
      [] p = "p_hue" ->
           [cmd |-> CMD_RPI_COMMAND, subcmd |-> RPI_CMD_SET_HUE, data |-> <<loc.arg_k>>]
      [] p = "p_bri" ->
           [cmd |-> CMD_RPI_COMMAND, subcmd |-> RPI_CMD_SET_BRIGHTNESS,
            data |-> <<loc.arg_k>>]

\* What the transport can hand back for frame f: the keyboard's answer, or
\* (for at most MaxGlitch reads of one checked call) a report that does not
\* answer the command; mismatched counts the mismatches of the call so far
Answers(f, subcmd, checked, mismatched) ==
    LET real == DevStep(dev, f, env)
    IN  {[dev |-> o.dev, resp |-> o.resp, garbled |-> FALSE] : o \in real}
        \cup (IF checked /\ env = "free" /\ mismatched < MaxGlitch
              THEN {[dev |-> o.dev, resp |-> g, garbled |-> TRUE] :
                        o \in real, g \in Garbled(f, subcmd)}
              ELSE {})

\* History of one write followed by one read
Exchanged(hh, f, raw, cmd, subcmd, checked, first) ==
    [hh EXCEPT
        !.frames = IF first THEN <<f>> ELSE Append(@, f),
        !.nmis = (IF first THEN 0 ELSE @)
                 + (IF checked /\ ~Echoes(raw, cmd, subcmd) THEN 1 ELSE 0),
        !.overlap = @ \/ rxq # <<>>,
        !.wrote = TRUE,
        !.stale = IF @ > 0 THEN @ - 1 ELSE 0,
        !.staleRead = @ \/ hh.stale > 0,
        !.polls = IF f[2] = CMD_VIAL_COMMAND /\ f[3] = VIAL_UNLOCK_POLL
                  THEN (IF @ < UnlockCounterMax + 3 THEN @ + 1 ELSE @) ELSE @,
        !.restrFrames = IF loc.restricted THEN @ \cup {<<f[2], f[3]>>} ELSE @,
        !.log = IF hh.logging THEN Append(@, f) ELSE @]

\* _send_command: one write, then one read of MSG_LEN bytes with its timeout
send_command(f, o) ==
    LET q == Append(rxq, o.resp)
    IN  [raw |-> Device_read(q, MSG_LEN), rxq |-> AfterRead(q)]

\* get_unlock_status, unlock_poll, get_vial_information: _send_command alone
SendRaw ==
    /\ eng.state = "idle"
    /\ pc \in RawSites
    /\ opened
    /\ LET c == SiteCmd(pc)
           f == Pack(Payload(c.cmd, c.subcmd, c.data))
       IN  \E o \in Answers(f, c.subcmd, FALSE, 0) :
             LET r == send_command(f, o)
             IN  /\ rxq' = r.rxq
                 /\ dev' = o.dev
                 /\ eng' = [EngIdle EXCEPT !.state = "ret", !.cmd = c.cmd,
                                           !.subcmd = c.subcmd, !.data = c.data,
                                           !.raw_data = r.raw]
                 /\ h' = Exchanged(h, f, r.raw, c.cmd, c.subcmd, FALSE, TRUE)
    /\ UNCHANGED <<pc, opened, model, variant, switch_matrix,
                   conversion_switch_matrix, led_map, loc, env, out>>

\* _send_check_command, up to the loop: the first write and read
SendCheckFirst ==
    /\ eng.state = "idle"
    /\ pc \in CheckedSites
    /\ opened
    /\ LET c == SiteCmd(pc)
           f == Pack(Payload(c.cmd, c.subcmd, c.data))
       IN  \E o \in Answers(f, c.subcmd, TRUE, 0) :
             LET r == send_command(f, o)
                 rcmd == r.raw[1]
                 rsubcmd == IF c.subcmd = None THEN None ELSE r.raw[2]
             IN  /\ rxq' = r.rxq
                 /\ dev' = o.dev
                 /\ eng' = [state |-> IF LoopCond(rcmd, rsubcmd, c.cmd, c.subcmd)
                                      THEN "loop" ELSE "ret",
                            cmd |-> c.cmd, subcmd |-> c.subcmd, data |-> c.data,
                            checked |-> TRUE, flush_count |-> 0, raw_data |-> r.raw,
                            rcmd |-> rcmd, rsubcmd |-> rsubcmd]
                 /\ h' = Exchanged(h, f, r.raw, c.cmd, c.subcmd, TRUE, TRUE)
    /\ UNCHANGED <<pc, opened, model, variant, switch_matrix,
                   conversion_switch_matrix, led_map, loc, env, out>>

\* _send_check_command: one turn of the loop -- resend, read, count, give up
\* when the count passes flush_limit
SendCheckRetry ==
    /\ eng.state = "loop"
    /\ LET f == Pack(Payload(eng.cmd, eng.subcmd, eng.data))
       IN  \E o \in Answers(f, eng.subcmd, TRUE, h.nmis) :
             LET r == send_command(f, o)
                 rcmd == r.raw[1]
                 rsubcmd == r.raw[2]
                 flush_count == eng.flush_count + 1
                 giveup == flush_count > flush_limit
             IN  /\ rxq' = r.rxq
                 /\ dev' = o.dev
                 /\ eng' = [eng EXCEPT
                              !.state = IF giveup THEN "raised"
                                        ELSE IF LoopCond(rcmd, rsubcmd, eng.cmd, eng.subcmd)
                                             THEN "loop" ELSE "ret",
                              !.flush_count = flush_count, !.raw_data = r.raw,
                              !.rcmd = rcmd, !.rsubcmd = rsubcmd]
                 /\ h' = Exchanged(h, f, r.raw, eng.cmd, eng.subcmd, TRUE, FALSE)
                 /\ pc' = IF giveup THEN "raised" ELSE pc
                 /\ out' = IF giveup
                           THEN [out EXCEPT !.error = "KeyboardNotCompatibleError",
                                            !.msgs = @ \cup {"Keyboard is not responding as expected"}]
                           ELSE out
    /\ UNCHANGED <<opened, model, variant, switch_matrix,
                   conversion_switch_matrix, led_map, loc, env>>


(***************************************************************************)
(* Session construction: __init__ and _get_hid_interface.                  *)
(***************************************************************************)
Raise(kind, msg) == [out EXCEPT !.error = kind, !.msgs = @ \cup {msg}]

Say(o, msg) == [o EXCEPT !.msgs = @ \cup {msg}]

SessionVars == <<opened, model, variant, switch_matrix, conversion_switch_matrix>>

PortVars == <<rxq, dev, env>>

\* _get_hid_interface: Device(path=path) opens the transport, or hid_open_path
\* gives nothing and the HIDException becomes KeyboardNotCompatibleError
get_hid_interface_open ==
    /\ pc = "new"
    /\ \E ok \in BOOLEAN :
         IF ok
         THEN /\ opened' = TRUE
              /\ pc' = "flush"
              /\ h' = [h EXCEPT !.was_opened = TRUE]
              /\ out' = out
         ELSE /\ opened' = FALSE
              /\ pc' = "raised"
              /\ h' = h
              /\ out' = Raise("KeyboardNotCompatibleError",
                              "Unable to connect to the keyboard")
    /\ UNCHANGED <<model, variant, switch_matrix, conversion_switch_matrix,
                   led_map, loc, eng, rxq, dev, env>>

\* FlushAgain for a flush that reads once
FlushAgain_Once(response) == FALSE

\* _flush_hid_buffer: whether the loop goes on after this response
FlushAgain(response) == response # <<>>

\* _flush_hid_buffer: one turn of the loop, a 1-byte read with its timeout
flush_hid_buffer ==
    /\ pc = "flush"
    /\ LET response == Device_read(rxq, 1)
       IN  /\ rxq' = AfterRead(rxq)
           /\ h' = [h EXCEPT !.flushReads = @ + 1,
                             !.stale = IF rxq # <<>> /\ @ > 0 THEN @ - 1 ELSE @]
           /\ pc' = IF FlushAgain(response) THEN "flush" ELSE "product"
    /\ UNCHANGED <<opened, model, variant, switch_matrix, conversion_switch_matrix,
                   led_map, loc, eng, dev, env, out>>

\* _get_hid_interface: the model and variant named by the product string
get_hid_interface_product ==
    /\ pc = "product"
    /\ LET info == dev.product
       IN  IF Contains(info, "Pi 500 Keyboard")
           THEN /\ model' = "PI500"
                /\ UNCHANGED <<variant, out>>
                /\ pc' = "tables"
           ELSE IF Contains(info, "Pi 500+ Keyboard")
           THEN /\ model' = "PI500PLUS"
                /\ variant' = IF Contains(info, "ISO") THEN "ISO"
                              ELSE IF Contains(info, "ANSI") THEN "ANSI"
                              ELSE IF Contains(info, "JIS") THEN "JIS" ELSE variant
                /\ pc' = "tables"
                /\ out' = out
           ELSE /\ out' = Raise("KeyboardNotCompatibleError", "Unknown keyboard model")
                /\ pc' = "raised"
                /\ UNCHANGED <<model, variant>>
    /\ h' = [h EXCEPT !.stale0 = 0, !.flushReads = 0]
    /\ UNCHANGED <<opened, switch_matrix, conversion_switch_matrix,
                   led_map, loc, eng, rxq, dev, env>>

\* __init__: the static tables of the model, and the PI500's LED directory
init_tables ==
    /\ pc = "tables"
    /\ IF model = "PI500"
       THEN \E country_code \in CountryCodes :
              /\ led_map' = Pi500Leds
              /\ switch_matrix' = SWITCH_MATRIX_PI500
              /\ variant' = get_pi_country_code(country_code)
              /\ conversion_switch_matrix' = SWITCH_MATRIX_CONVERSION_PI500_ISO
       ELSE /\ switch_matrix' =
                 IF variant = "ISO" THEN SWITCH_MATRIX_PI500PLUS_ISO
                 ELSE IF variant = "ANSI" THEN SWITCH_MATRIX_PI500PLUS_ANSI
                 ELSE IF variant = "JIS" THEN SWITCH_MATRIX_PI500PLUS_JIS
                 ELSE switch_matrix
            /\ UNCHANGED <<led_map, variant, conversion_switch_matrix>>
    /\ pc' = "i_status"
    /\ UNCHANGED <<opened, model, loc, eng, rxq, dev, env, h, out>>

\* __init__: an unlock left waiting by an earlier session is resumed first
init_get_unlock_status ==
    /\ pc = "i_status" /\ eng.state = "ret"
    /\ LET st == get_unlock_status(eng.raw_data, switch_matrix, conversion_switch_matrix)
       IN  IF st.in_progress # 0
           THEN /\ out' = Say(out, "Keyboard is waiting for unlock")
                /\ loc' = [LocInit EXCEPT !.restricted = TRUE]
                /\ pc' = "u_status1"
                /\ h' = [h EXCEPT !.ipAtStart = TRUE, !.restrFrames = {},
                                  !.lockedStart = FALSE]
           ELSE /\ pc' = "i_via"
                /\ UNCHANGED <<loc, out, h>>
    /\ eng' = EngIdle
    /\ UNCHANGED <<SessionVars, PortVars, led_map>>

init_get_via_protocol_version ==
    /\ pc = "i_via" /\ eng.state = "ret"
    /\ loc' = [loc EXCEPT !.via = get_via_protocol_version(eng.raw_data)]
    /\ pc' = "i_vial"
    /\ eng' = EngIdle
    /\ UNCHANGED <<SessionVars, PortVars, led_map, h, out>>

init_get_vial_information ==
    /\ pc = "i_vial" /\ eng.state = "ret"
    /\ loc' = [loc EXCEPT !.vial = get_vial_information(eng.raw_data).vial]
    /\ pc' = "i_fw"
    /\ eng' = EngIdle
    /\ UNCHANGED <<SessionVars, PortVars, led_map, h, out>>

\* __init__: the firmware version arrives, then the compatibility gate
init_get_firmware_version ==
    /\ pc = "i_fw" /\ eng.state = "ret"
    /\ LET rpi_version == get_firmware_version(eng.raw_data)
           err == CompatibilityError(loc.via, loc.vial, rpi_version)
       IN  IF err # ""
           THEN /\ out' = Raise(err, "The keyboard does not support the required version")
                /\ pc' = "raised"
           ELSE /\ out' = out
                /\ pc' = IF model = "PI500PLUS" THEN "i_numleds" ELSE "ready"
    /\ loc' = LocInit
    /\ eng' = EngIdle
    /\ UNCHANGED <<SessionVars, PortVars, led_map, h>>

\* get_leds: get_number_leds
init_get_number_leds ==
    /\ pc = "i_numleds" /\ eng.state = "ret"
    /\ LET num_leds == UnLE16(Slice(eng.raw_data, 2, 4))
       IN  IF num_leds = 0
           THEN /\ led_map' = <<>>
                /\ loc' = LocInit
                /\ pc' = "ready"
           ELSE /\ loc' = [loc EXCEPT !.num_leds = num_leds, !.i = 0, !.leds = <<>>]
                /\ pc' = "i_ledinfo"
                /\ UNCHANGED led_map
    /\ eng' = EngIdle
    /\ UNCHANGED <<SessionVars, PortVars, h, out>>

\* get_leds: one get_led_info per index, then the directory is installed
init_get_led_info ==
    /\ pc = "i_ledinfo" /\ eng.state = "ret"
    /\ LET li == get_led_info(eng.raw_data, switch_matrix, conversion_switch_matrix)
           leds == Append(loc.leds, NewLED(loc.i, li.matrix, li.flags, li.x, li.y))
       IN  IF loc.i + 1 < loc.num_leds
           THEN /\ loc' = [loc EXCEPT !.i = @ + 1, !.leds = leds]
                /\ pc' = "i_ledinfo"
                /\ UNCHANGED led_map
           ELSE /\ led_map' = leds
                /\ loc' = LocInit
                /\ pc' = "ready"
    /\ eng' = EngIdle
    /\ UNCHANGED <<SessionVars, PortVars, h, out>>


(***************************************************************************)
(* The unlock handshake: unlock(restricted_commands).                      *)
(***************************************************************************)
\* The CLI's unlock command: keyboard.unlock()
cli_unlock ==
    /\ pc = "ready"
    /\ pc' = "u_status1"
    /\ loc' = [LocInit EXCEPT !.restricted = FALSE]
    /\ h' = [h EXCEPT !.ret = "", !.polls = 0,
                      !.lockedStart = ~dev.unlocked /\ ~dev.in_progress,
                      !.snap = [cur_idx |-> dev.cur_idx, saved_idx |-> dev.saved_idx,
                                presets |-> dev.presets, colours |-> Colours(led_map)]]
    /\ UNCHANGED <<SessionVars, PortVars, led_map, eng, out>>

\* unlock returns to its caller: __init__ goes on with the version queries,
\* the CLI prints its line and ends
UnlockReturn(how, o) ==
    /\ h' = [h EXCEPT !.ret = how, !.resumed = @ \/ loc.restricted]
    /\ loc' = LocInit
    /\ IF loc.restricted
       THEN pc' = "i_via" /\ out' = o
       ELSE pc' = "exit" /\ out' = Say(o, "Keyboard unlocked")

\* rgb_clear: every colour of the directory set to black
rgb_clear(leds) == [k \in 1..Len(leds) |-> [leds[k] EXCEPT !.colour = <<0, 0, 0>>]]

\* unlock, from the "already unlocked" test to request_unlock
UnlockBody(l, use_leds) ==
    IF l.unlocked # 0
    THEN /\ UnlockReturn("already", Say(out, "Keyboard is already unlocked"))
         /\ UNCHANGED led_map
    ELSE /\ out' = Say(out, "Press and hold the unlock keys")
         /\ h' = h
         /\ IF ~l.restricted /\ l.in_progress = 0
            THEN IF use_leds
                 THEN /\ led_map' = rgb_clear(led_map)
                      /\ loc' = [l EXCEPT !.sent = 0, !.i = 0]
                      /\ pc' = IF Len(led_map) > 0 THEN "u_clear"
                               ELSE IF Len(l.keys) > 0 THEN "u_key" ELSE "u_request"
                 ELSE /\ UNCHANGED led_map
                      /\ loc' = [l EXCEPT !.i = 0]
                      /\ pc' = IF Len(l.keys) > 0 THEN "u_key" ELSE "u_request"
            ELSE /\ UNCHANGED led_map
                 /\ loc' = l
                 /\ pc' = "u_request"

\* unlock: the first get_unlock_status, then set_led_direct_effect when the
\* LEDs are used
unlock_get_unlock_status ==
    /\ pc = "u_status1" /\ eng.state = "ret"
    /\ LET st == get_unlock_status(eng.raw_data, switch_matrix, conversion_switch_matrix)
           l == [loc EXCEPT !.unlocked = st.unlocked, !.in_progress = st.in_progress,
                            !.keys = st.keys]
       IN  IF UseLeds(model, loc.restricted)
           THEN /\ loc' = l
                /\ pc' = "u_sp7"
                /\ UNCHANGED <<led_map, h, out>>
           ELSE UnlockBody(l, FALSE)
    /\ eng' = EngIdle
    /\ UNCHANGED <<SessionVars, PortVars>>

\* set_led_direct_effect -> set_temp_effect: set_preset(7, preset) is answered
unlock_set_preset ==
    /\ pc = "u_sp7" /\ eng.state = "ret"
    /\ pc' = "u_si7"
    /\ eng' = EngIdle
    /\ UNCHANGED <<SessionVars, PortVars, led_map, loc, h, out>>

\* set_temp_effect: set_current_preset_index(7, save_index=False) is answered
unlock_set_current_preset_index ==
    /\ pc = "u_si7" /\ eng.state = "ret"
    /\ UnlockBody(loc, TRUE)
    /\ eng' = EngIdle
    /\ UNCHANGED <<SessionVars, PortVars>>

\* send_leds: one packet is answered; the loop goes on while LEDs are left
unlock_send_leds ==
    /\ pc \in {"u_clear", "u_send"} /\ eng.state = "ret"
    /\ LET sent == loc.sent + SendLedsCount(led_map, loc.sent)
       IN  IF sent < Len(led_map)
           THEN /\ loc' = [loc EXCEPT !.sent = sent]
                /\ pc' = pc
           ELSE /\ loc' = [loc EXCEPT !.sent = 0, !.i = 0]
                /\ pc' = IF pc = "u_clear" /\ Len(loc.keys) > 0 THEN "u_key"
                         ELSE IF pc = "u_clear" THEN "u_send" ELSE "u_request"
    /\ eng' = EngIdle
    /\ UNCHANGED <<SessionVars, PortVars, led_map, h, out>>

\* unlock: one unlock key -- get_keycode is answered, the key's LED is set
unlock_get_keycode ==
    /\ pc = "u_key" /\ eng.state = "ret"
    /\ LET use_leds == UseLeds(model, loc.restricted)
           key == loc.keys[loc.i + 1]
           idx == led_matrix_to_idx(led_map, key, model, switch_matrix,
                                    conversion_switch_matrix)
           last == loc.i + 1 >= Len(loc.keys)
       IN  IF use_leds /\ idx = None
           THEN /\ out' = Raise("ValueError", "LED not found at matrix position")
                /\ pc' = "raised"
                /\ UNCHANGED <<led_map, loc>>
           ELSE /\ led_map' = IF use_leds
                              THEN [led_map EXCEPT ![idx + 1].colour = <<255, 255, 255>>]
                              ELSE led_map
                /\ loc' = [loc EXCEPT !.i = IF last THEN 0 ELSE @ + 1, !.sent = 0]
                /\ pc' = IF ~last THEN "u_key"
                         ELSE IF use_leds /\ Len(led_map) > 0 THEN "u_send"
                         ELSE "u_request"
                /\ out' = out
    /\ eng' = EngIdle
    /\ UNCHANGED <<SessionVars, PortVars, h>>

\* unlock: request_unlock is answered
unlock_request_unlock ==
    /\ pc = "u_request" /\ eng.state = "ret"
    /\ pc' = "u_status2"
    /\ eng' = EngIdle
    /\ UNCHANGED <<SessionVars, PortVars, led_map, loc, h, out>>

\* unlock: where it goes when the poll loop is over
AfterPollLoop(use_leds) == IF use_leds THEN "u_rev_get" ELSE "u_status3"

\* unlock: the status read after request_unlock decides whether to poll
unlock_status_before_poll ==
    /\ pc = "u_status2" /\ eng.state = "ret"
    /\ LET st == get_unlock_status(eng.raw_data, switch_matrix, conversion_switch_matrix)
       IN  /\ loc' = [loc EXCEPT !.unlocked = st.unlocked,
                                 !.in_progress = st.in_progress,
                                 !.keys = st.keys, !.last_counter = -1]
           /\ pc' = IF st.in_progress # 0 THEN "u_poll"
                    ELSE AfterPollLoop(UseLeds(model, loc.restricted))
    /\ eng' = EngIdle
    /\ UNCHANGED <<SessionVars, PortVars, led_map, h, out>>

\* unlock: one turn of the poll loop
unlock_poll_loop ==
    /\ pc = "u_poll" /\ eng.state = "ret"
    /\ LET st == unlock_poll(eng.raw_data)
       IN  /\ loc' = [loc EXCEPT !.unlocked = st.unlocked,
                                 !.in_progress = st.in_progress,
                                 !.last_counter = st.counter]
           /\ pc' = IF st.in_progress # 0 THEN "u_poll"
                    ELSE AfterPollLoop(UseLeds(model, loc.restricted))
    /\ eng' = EngIdle
    /\ UNCHANGED <<SessionVars, PortVars, led_map, h, out>>

\* revert_to_saved_preset: get_saved_preset_index is answered
unlock_get_saved_preset_index ==
    /\ pc = "u_rev_get" /\ eng.state = "ret"
    /\ loc' = [loc EXCEPT !.saved = get_saved_preset_index(eng.raw_data)]
    /\ pc' = "u_rev_set"
    /\ eng' = EngIdle
    /\ UNCHANGED <<SessionVars, PortVars, led_map, h, out>>

\* revert_to_saved_preset: set_current_preset_index(saved, True) is answered
unlock_revert_to_saved_preset ==
    /\ pc = "u_rev_set" /\ eng.state = "ret"
    /\ pc' = "u_status3"
    /\ eng' = EngIdle
    /\ UNCHANGED <<SessionVars, PortVars, led_map, loc, h, out>>

\* unlock: the verdict on the final status -- "ok", "raise" or "return"
UnlockVerdict(unlocked, unlock_in_progress) ==
    IF unlocked # 0 /\ unlock_in_progress = 0 THEN "ok"
    ELSE IF unlock_in_progress # 0 THEN "raise"
    ELSE "return"

\* unlock: the final get_unlock_status and what is made of it
unlock_final_status ==
    /\ pc = "u_status3" /\ eng.state = "ret"
    /\ LET st == get_unlock_status(eng.raw_data, switch_matrix, conversion_switch_matrix)
           v == UnlockVerdict(st.unlocked, st.in_progress)
       IN  CASE v = "ok" -> UnlockReturn("unlocked", Say(out, "Keyboard is unlocked"))
             [] v = "raise" ->
                  /\ out' = Raise("Exception", "Unlock process is still in progress")
                  /\ pc' = "raised"
                  /\ UNCHANGED <<loc, h>>
             [] OTHER ->
                  UnlockReturn("wrong", Say(out, "Something went wrong whilst trying to unlock"))
    /\ eng' = EngIdle
    /\ UNCHANGED <<SessionVars, PortVars, led_map>>

\* The CLI's lock command: keyboard.lock()
cli_lock ==
    /\ pc = "ready"
    /\ pc' = "c_lock"
    /\ loc' = LocInit
    /\ UNCHANGED <<SessionVars, PortVars, led_map, eng, h, out>>

\* lock returns; the CLI prints its line and ends
lock_response ==
    /\ pc = "c_lock" /\ eng.state = "ret"
    /\ pc' = "exit"
    /\ out' = Say(out, "Keyboard locked")
    /\ eng' = EngIdle
    /\ UNCHANGED <<SessionVars, PortVars, led_map, loc, h>>

Next ==
    \/ get_hid_interface_open
    \/ flush_hid_buffer
    \/ get_hid_interface_product
    \/ init_tables
    \/ SendRaw
    \/ SendCheckFirst
    \/ SendCheckRetry
    \/ init_get_unlock_status
    \/ init_get_via_protocol_version
    \/ init_get_vial_information
    \/ init_get_firmware_version
    \/ init_get_number_leds
    \/ init_get_led_info
    \/ cli_unlock
    \/ unlock_get_unlock_status
    \/ unlock_set_preset
    \/ unlock_set_current_preset_index
    \/ unlock_send_leds
    \/ unlock_get_keycode
    \/ unlock_request_unlock
    \/ unlock_status_before_poll
    \/ unlock_poll_loop
    \/ unlock_get_saved_preset_index
    \/ unlock_revert_to_saved_preset
    \/ unlock_final_status
    \/ cli_lock
    \/ lock_response

Spec == Init /\ [][Next]_vars

\* The session runs to completion: no call is left half done
FairSpec == Spec /\ WF_vars(Next)


(***************************************************************************)
(* The API of a constructed session, called MaxCalls times at most.  The   *)
(* keyboard answers every frame in kind (env = "scripted"), so the retry   *)
(* loop of the command engine is never entered here.                       *)
(***************************************************************************)
ColourSamples == {<<60, 255, 255>>, <<1, 2, 3>>}

LedCounts == {0, 1, send_per_packet, OpsNumLeds}

\* get_leds: the directory as __init__ builds it from n get_led_info answers
BuiltLeds(n) ==
    [k \in 1..n |->
        LET li == get_led_info(
                      Report(<<CMD_LIGHTING_GET_VALUE, VIALRGB_GET_LED_INFO,
                               DevLedInfo(k - 1).x, DevLedInfo(k - 1).y,
                               DevLedInfo(k - 1).flags, DevLedInfo(k - 1).row,
                               DevLedInfo(k - 1).col>>),
                      SWITCH_MATRIX_PI500PLUS_ISO, NoTable)
        IN  NewLED(k - 1, li.matrix, li.flags, li.x, li.y)]

\* A keyboard that passed the compatibility gate
DevReady(cur, saved, prod) ==
    [DevInit(FALSE, FALSE, cur, saved, prod) EXCEPT
        !.via = MIN_VIA_PROTOCOL, !.vial = MIN_VIAL_PROTOCOL, !.fw = MinFirmware]

\* The state __init__ leaves: the session is constructed and idle; hh is the
\* history so far
ReadyWith(m, v, sm, conv, leds, d, hh) ==
    /\ pc = "ready"
    /\ opened = TRUE
    /\ model = m
    /\ variant = v
    /\ switch_matrix = sm
    /\ conversion_switch_matrix = conv
    /\ led_map = leds
    /\ loc = LocInit
    /\ eng = EngIdle
    /\ rxq = <<>>
    /\ dev = d
    /\ env = "scripted"
    /\ h = hh
    /\ out = [error |-> "", msgs |-> {}]

Ready(m, v, sm, conv, leds, d) ==
    ReadyWith(m, v, sm, conv, leds, d,
              [HistInit(0) EXCEPT !.logging = TRUE, !.was_opened = TRUE])

\* The state __init__ leaves when Device(path) raised: no _device attribute
Unopened(d, hh) ==
    /\ pc = "raised"
    /\ opened = FALSE
    /\ model = "None"
    /\ variant = "None"
    /\ switch_matrix = NoTable
    /\ conversion_switch_matrix = NoTable
    /\ led_map = <<>>
    /\ loc = LocInit
    /\ eng = EngIdle
    /\ rxq = <<>>
    /\ dev = d
    /\ env = "scripted"
    /\ h = hh
    /\ out = [error |-> "KeyboardNotCompatibleError",
              msgs |-> {"Unable to connect to the keyboard"}]

\* History of a call that starts
Called(op, chain) ==
    [h EXCEPT !.calls = @ + 1, !.log = <<>>, !.op = op, !.done = FALSE,
              !.chain = chain,
              !.rev = IF op = "revert_to_saved_preset" THEN @ ELSE 0,
              !.pre = [colours |-> Colours(led_map), cur_idx |-> dev.cur_idx,
                       saved_idx |-> dev.saved_idx, presets |-> dev.presets,
                       dev_leds |-> dev.leds, led_map |-> led_map]]

\* The caller makes another call: at most n of this family, h.cap in all
CanCallWithin(n) ==
    pc = "ready" /\ eng.state = "idle" /\ h.calls < n /\ h.calls < h.cap

CanCall == CanCallWithin(MaxCalls)

\* Every LED of a directory of up to OpsNumLeds entries; of a longer one the
\* first, the last and the first of the second packet
LedIndexSamples(leds) ==
    IF Len(leds) <= OpsNumLeds THEN 0..(Len(leds) - 1)
    ELSE {0, leds_per_packet, Len(leds) - 1}

MatrixSamples(leds) ==
    {leds[k + 1].matrix : k \in LedIndexSamples(leds)} \cup {<<7, 7>>}

\* set_led_by_idx(idx=idx, colour=colour)
api_set_led_by_idx ==
    /\ CanCall
    /\ \E idx \in LedIndexSamples(led_map), colour \in ColourSamples :
         /\ led_map' = set_led_by_idx(led_map, idx, colour)
         /\ h' = [Called("set_led_by_idx", 1) EXCEPT
                     !.done = TRUE, !.seti = idx, !.setc = colour]
    /\ loc' = LocInit
    /\ UNCHANGED <<pc, SessionVars, PortVars, eng, out>>

\* set_led_by_matrix(matrix=matrix, colour=colour)
api_set_led_by_matrix ==
    /\ CanCall
    /\ \E matrix \in MatrixSamples(led_map), colour \in ColourSamples :
         LET idx == led_matrix_to_idx(led_map, matrix, model, switch_matrix,
                                      conversion_switch_matrix)
         IN
         /\ IF idx = None
             THEN /\ out' = Raise("ValueError", "LED not found at matrix position")
                  /\ pc' = "raised"
                  /\ h' = Called("set_led_by_matrix", 0)
                  /\ UNCHANGED led_map
             ELSE /\ led_map' = set_led_by_idx(led_map, idx, colour)
                  /\ h' = [Called("set_led_by_matrix", 1) EXCEPT
                              !.done = TRUE, !.seti = idx, !.setc = colour]
                  /\ UNCHANGED <<pc, out>>
         /\ loc' = [LocInit EXCEPT !.arg_m = matrix]
    /\ UNCHANGED <<SessionVars, PortVars, eng>>

\* send_leds(): nothing is written for the PI500 or for an empty directory
api_send_leds ==
    /\ CanCall
    /\ LET c == IF h.chain \in {1, 2} THEN h.chain ELSE 0
       IN  IF model = "PI500" \/ Len(led_map) = 0
           THEN /\ h' = [Called("send_leds", IF c = 1 /\ model # "PI500" THEN 2 ELSE c)
                            EXCEPT !.done = TRUE]
                /\ pc' = pc
           ELSE /\ h' = Called("send_leds", c)
                /\ pc' = "l_send"
    /\ loc' = [LocInit EXCEPT !.sent = 0]
    /\ UNCHANGED <<SessionVars, PortVars, led_map, eng, out>>

\* send_leds: one packet is answered; the loop goes on while sent < len(leds)
send_leds_response ==
    /\ pc = "l_send" /\ eng.state = "ret"
    /\ LET sent == loc.sent + SendLedsCount(led_map, loc.sent)
       IN  IF sent < Len(led_map)
           THEN /\ loc' = [loc EXCEPT !.sent = sent]
                /\ pc' = pc
                /\ h' = h
           ELSE /\ loc' = [loc EXCEPT !.sent = sent]
                /\ pc' = "ready"
                /\ h' = [h EXCEPT !.done = TRUE, !.chain = IF @ = 1 THEN 2 ELSE @]
    /\ eng' = EngIdle
    /\ UNCHANGED <<SessionVars, PortVars, led_map, out>>

\* get_current_direct_leds / get_saved_direct_leds, up to the loop:
\* leds = self._led_map.copy() is a new list of the same LED objects
GetDirectLedsCall(op, site) ==
    /\ CanCall
    /\ LET c == IF op = "get_current_direct_leds" /\ h.chain = 2 THEN 2 ELSE 0
       IN  IF Len(led_map) = 0
           THEN /\ h' = [Called(op, IF c = 2 THEN 3 ELSE 0) EXCEPT !.done = TRUE]
                /\ pc' = pc
           ELSE /\ h' = Called(op, c)
                /\ pc' = site
    /\ loc' = [LocInit EXCEPT !.leds = led_map, !.retrieved = 0]
    /\ UNCHANGED <<SessionVars, PortVars, led_map, eng, out>>

\* One response of the loop: leds[retrieved + i].colour = ... assigns to the LED
\* objects, which the session's directory holds too
GetDirectLedsResponse(site) ==
    /\ pc = site /\ eng.state = "ret"
    /\ LET retrieved == loc.retrieved + leds_per_packet
       IN  /\ loc' = [loc EXCEPT
                        !.leds = ReadDirectLeds(@, eng.raw_data, loc.retrieved),
                        !.retrieved = retrieved]
           /\ led_map' = ReadDirectLeds(led_map, eng.raw_data, loc.retrieved)
           /\ IF retrieved < Len(loc.leds)
              THEN pc' = pc /\ h' = h
              ELSE /\ pc' = "ready"
                   /\ h' = [h EXCEPT !.done = TRUE, !.chain = IF @ = 2 THEN 3 ELSE 0]
    /\ eng' = EngIdle
    /\ UNCHANGED <<SessionVars, PortVars, out>>

api_get_current_direct_leds ==
    GetDirectLedsCall("get_current_direct_leds", "l_get_current")

get_current_direct_leds_response == GetDirectLedsResponse("l_get_current")

api_get_saved_direct_leds == GetDirectLedsCall("get_saved_direct_leds", "l_get_saved")

get_saved_direct_leds_response == GetDirectLedsResponse("l_get_saved")

\* rgb_clear(): every colour set to black, then send_leds()
api_rgb_clear ==
    /\ CanCall
    /\ led_map' = rgb_clear(led_map)
    /\ IF model = "PI500" \/ Len(led_map) = 0
       THEN /\ h' = [Called("rgb_clear", 0) EXCEPT !.done = TRUE]
            /\ pc' = pc
       ELSE /\ h' = Called("rgb_clear", 0)
            /\ pc' = "l_send"
    /\ loc' = [LocInit EXCEPT !.sent = 0]
    /\ UNCHANGED <<SessionVars, PortVars, eng, out>>

\* _send_check_command when the read of _send_command times out:
\* hid_read_timeout returns 0, Device.read returns data.raw[:0], and
\* struct.unpack("B", ...) or struct.unpack("<BB", ...) of the empty slice
\* raises struct.error, on the first read and in the loop alike.  The keyboard
\* may have taken the frame or not
SendCheckTimeout ==
    /\ opened
    /\ rxq = <<>>
    /\ \/ eng.state = "idle" /\ pc \in CheckedSites
       \/ eng.state = "loop"
    /\ LET first == eng.state = "idle"
           c == IF first THEN SiteCmd(pc)
                ELSE [cmd |-> eng.cmd, subcmd |-> eng.subcmd, data |-> eng.data]
           f == Pack(Payload(c.cmd, c.subcmd, c.data))
           raw_data == Device_read(rxq, MSG_LEN)
       IN  /\ \E o \in DevStep(dev, f, env) : dev' \in {dev, o.dev}
           /\ h' = Exchanged(h, f, raw_data, c.cmd, c.subcmd, TRUE, first)
           /\ eng' = [EngIdle EXCEPT !.state = "raised", !.cmd = c.cmd,
                                     !.subcmd = c.subcmd, !.data = c.data,
                                     !.checked = TRUE, !.raw_data = raw_data,
                                     !.flush_count = eng.flush_count]
    /\ pc' = "raised"
    /\ out' = Raise("struct.error", "unpack requires a buffer")
    /\ UNCHANGED <<opened, model, variant, switch_matrix,
                   conversion_switch_matrix, led_map, loc, rxq, env>>

\* A PI500PLUS session over a keyboard of n LEDs whose saved colours differ
\* from the live ones
LedInit ==
    \E n \in LedCounts :
        Ready("PI500PLUS", "ISO", SWITCH_MATRIX_PI500PLUS_ISO, NoTable, BuiltLeds(n),
              [DevReady(2, 2, {"Pi 500+ Keyboard", "ISO"}) EXCEPT
                  !.leds = [k \in 1..n |-> <<0, 0, 0>>],
                  !.saved_leds = [k \in 1..n |-> <<k, 7, 7>>]])

LedNext ==
    \/ SendCheckFirst
    \/ api_set_led_by_idx
    \/ api_set_led_by_matrix
    \/ api_send_leds
    \/ send_leds_response
    \/ api_get_current_direct_leds
    \/ get_current_direct_leds_response
    \/ api_get_saved_direct_leds
    \/ get_saved_direct_leds_response

LedSpec == LedInit /\ [][LedNext]_vars

\* The LED operations and rgb_clear on a session of either model
DirectoryInit ==
    \/ LedInit
    \/ Ready("PI500", "ISO", SWITCH_MATRIX_PI500, SWITCH_MATRIX_CONVERSION_PI500_ISO,
             Pi500Leds, DevReady(2, 2, {"Pi 500 Keyboard"}))

DirectoryNext ==
    \/ LedNext
    \/ api_rgb_clear

DirectorySpec == DirectoryInit /\ [][DirectoryNext]_vars


(***************************************************************************)
(* Presets and preset indices.                                             *)
(***************************************************************************)
EffectSamples == {258, 65535}

PresetSamples ==
    {[flags |-> LED_FLAG_ALL, effect |-> e, speed |-> 128, fixed_hue |-> FALSE,
      startup_animation |-> START_ANIM_B_FADE_VAL, hue |-> 10, sat |-> 20] :
        e \in EffectSamples}

\* History of a call that returns
Returned(hh) == [hh EXCEPT !.done = TRUE]

\* The preset indices a caller passes: the slots, the first index past them,
\* and the first that does not fit a byte
PresetIndexArgs == 0..TEMP_PRESET_INDEX \cup {TEMP_PRESET_INDEX + 1, 256}

\* An argument does not pack: struct.error / OverflowError leaves the call
\* before _send_check_command is entered
RaisePacking(kind) ==
    /\ pc' = "raised"
    /\ out' = Raise(kind, "argument out of range")

\* set_preset(preset_index, preset)
api_set_preset ==
    /\ CanCallWithin(MaxPresetCalls)
    /\ \E preset_index \in PresetIndexArgs, preset \in PresetSamples :
         /\ loc' = [LocInit EXCEPT !.arg_k = preset_index, !.arg_p = preset]
         /\ IF FitsByte(preset_index) /\ FitsUint16(preset.effect)
            THEN pc' = "p_set" /\ out' = out
            ELSE RaisePacking("struct.error")
    /\ h' = Called("set_preset", 0)
    /\ UNCHANGED <<SessionVars, PortVars, led_map, eng>>

\* set_temp_effect(preset=preset): preset_index = 7, then set_preset
api_set_temp_effect ==
    /\ CanCallWithin(MaxPresetCalls)
    /\ \E preset \in PresetSamples :
         loc' = [LocInit EXCEPT !.arg_k = TEMP_PRESET_INDEX, !.arg_p = preset]
    /\ pc' = "p_set"
    /\ h' = Called("set_temp_effect", 0)
    /\ UNCHANGED <<SessionVars, PortVars, led_map, eng, out>>

\* set_led_direct_effect(): returns at once on the PI500
api_set_led_direct_effect ==
    /\ CanCallWithin(MaxPresetCalls)
    /\ IF model = "PI500"
       THEN /\ pc' = pc
            /\ h' = Returned(Called("set_led_direct_effect", 0))
            /\ loc' = LocInit
       ELSE /\ pc' = "p_set"
            /\ h' = Called("set_led_direct_effect", 0)
            /\ loc' = [LocInit EXCEPT !.arg_k = TEMP_PRESET_INDEX, !.arg_p = DirectPreset]
    /\ UNCHANGED <<SessionVars, PortVars, led_map, eng, out>>

\* set_preset is answered: it returns, to its caller or into set_temp_effect
set_preset_response ==
    /\ pc = "p_set" /\ eng.state = "ret"
    /\ LET hh == [h EXCEPT !.wrote_presets =
                     {e \in @ : e[1] # loc.arg_k} \cup {<<loc.arg_k, loc.arg_p.effect>>}]
       IN  IF h.op = "set_preset"
           THEN pc' = "ready" /\ h' = Returned(hh)
           ELSE pc' = "p_sel" /\ h' = hh
    /\ eng' = EngIdle
    /\ UNCHANGED <<SessionVars, PortVars, led_map, loc, out>>

\* set_temp_effect: set_current_preset_index(7, save_index=False) is answered
set_temp_effect_response ==
    /\ pc = "p_sel" /\ eng.state = "ret"
    /\ pc' = "ready"
    /\ h' = Returned(h)
    /\ eng' = EngIdle
    /\ UNCHANGED <<SessionVars, PortVars, led_map, loc, out>>

\* get_preset(preset_index)
api_get_preset ==
    /\ CanCallWithin(MaxPresetCalls)
    /\ \E preset_index \in PresetIndexArgs :
         /\ loc' = [LocInit EXCEPT !.arg_k = preset_index]
         /\ IF FitsByte(preset_index)
            THEN pc' = "p_get" /\ out' = out
            ELSE RaisePacking("OverflowError")
    /\ h' = Called("get_preset", 0)
    /\ UNCHANGED <<SessionVars, PortVars, led_map, eng>>

get_preset_response ==
    /\ pc = "p_get" /\ eng.state = "ret"
    /\ loc' = [loc EXCEPT !.preset = get_preset(eng.raw_data)]
    /\ pc' = "ready"
    /\ h' = Returned(h)
    /\ eng' = EngIdle
    /\ UNCHANGED <<SessionVars, PortVars, led_map, out>>

\* get_current_preset_index()
api_get_current_preset_index ==
    /\ CanCallWithin(MaxPresetCalls)
    /\ pc' = "p_idx"
    /\ loc' = LocInit
    /\ h' = Called("get_current_preset_index", 0)
    /\ UNCHANGED <<SessionVars, PortVars, led_map, eng, out>>

\* get_saved_preset_index()
api_get_saved_preset_index ==
    /\ CanCallWithin(MaxPresetCalls)
    /\ pc' = "p_idx"
    /\ loc' = LocInit
    /\ h' = Called("get_saved_preset_index", 0)
    /\ UNCHANGED <<SessionVars, PortVars, led_map, eng, out>>

\* Either index query is answered
get_preset_index_response ==
    /\ pc = "p_idx" /\ eng.state = "ret"
    /\ loc' = [loc EXCEPT !.res = IF h.op = "get_current_preset_index"
                                  THEN get_current_preset_index(eng.raw_data)
                                  ELSE get_saved_preset_index(eng.raw_data)]
    /\ pc' = "ready"
    /\ h' = Returned(h)
    /\ eng' = EngIdle
    /\ UNCHANGED <<SessionVars, PortVars, led_map, out>>

\* revert_to_saved_preset(): get_saved_preset_index() first
api_revert_to_saved_preset ==
    /\ CanCallWithin(MaxPresetCalls)
    /\ pc' = "p_rev_get"
    /\ loc' = LocInit
    /\ h' = Called("revert_to_saved_preset", 0)
    /\ UNCHANGED <<SessionVars, PortVars, led_map, eng, out>>

\* revert_to_saved_preset: the saved index arrives
revert_get_saved_preset_index ==
    /\ pc = "p_rev_get" /\ eng.state = "ret"
    /\ loc' = [loc EXCEPT !.saved = get_saved_preset_index(eng.raw_data)]
    /\ pc' = "p_rev_set"
    /\ eng' = EngIdle
    /\ UNCHANGED <<SessionVars, PortVars, led_map, h, out>>

\* revert_to_saved_preset: set_current_preset_index(saved, True) is answered
revert_set_current_preset_index ==
    /\ pc = "p_rev_set" /\ eng.state = "ret"
    /\ pc' = "ready"
    /\ h' = [Returned(h) EXCEPT !.rev = IF @ < 2 THEN @ + 1 ELSE @]
    /\ eng' = EngIdle
    /\ UNCHANGED <<SessionVars, PortVars, led_map, loc, out>>

\* The live and saved preset index of the keyboard when the session starts
IndexSamples == {<<2, 2>>, <<7, 2>>, <<7, 5>>}

PresetInit ==
    \E ix \in IndexSamples :
        \/ Ready("PI500PLUS", "ISO", SWITCH_MATRIX_PI500PLUS_ISO, NoTable,
                 BuiltLeds(NumLeds),
                 DevReady(ix[1], ix[2], {"Pi 500+ Keyboard", "ISO"}))
        \/ Ready("PI500", "ISO", SWITCH_MATRIX_PI500,
                 SWITCH_MATRIX_CONVERSION_PI500_ISO, Pi500Leds,
                 DevReady(ix[1], ix[2], {"Pi 500 Keyboard"}))

PresetNext ==
    \/ SendCheckFirst
    \/ api_set_preset
    \/ api_set_temp_effect
    \/ api_set_led_direct_effect
    \/ set_preset_response
    \/ set_temp_effect_response
    \/ api_get_preset
    \/ get_preset_response
    \/ api_get_current_preset_index
    \/ api_get_saved_preset_index
    \/ get_preset_index_response
    \/ api_revert_to_saved_preset
    \/ revert_get_saved_preset_index
    \/ revert_set_current_preset_index

PresetSpec == PresetInit /\ [][PresetNext]_vars


(***************************************************************************)
(* Keymap and switch matrix, over Switch Matrix Maps whose row words are   *)
(* 1, 2, 3 and 4 bytes wide.                                               *)
(***************************************************************************)
\* A map of two rows whose largest column index asks for words of w bytes
\* (column 30 for 4 bytes: the words stay below 2^31)
SyntheticMap(w) ==
    <<(<<0, 0>>), (<<0, IF w = 4 THEN 30 ELSE 8 * w - 1>>), (<<1, 8 * (w - 1)>>)>>

\* The logical positions of a Conversion Table for the synthetic maps
SyntheticConversion == <<(<<9, 0>>), (<<9, 1>>), (<<9, 2>>)>>

KeycodeSamples == {4660, 65535}

\* The keycodes a caller passes: the samples and the first past 16 bits
KeycodeArgs == KeycodeSamples \cup {65536}

LayerSamples == {0, 1}

\* The positions a caller names: logical ones when there is a Conversion Table
CallerPositions ==
    IF conversion_switch_matrix = NoTable
    THEN {switch_matrix[k] : k \in 1..Len(switch_matrix)}
    ELSE {conversion_switch_matrix[k] : k \in 1..Len(conversion_switch_matrix)}

\* The keys held down: none, one key, or all keys and one that is not in the map
PressedSamples(sm) ==
    {{}} \cup {{sm[k]} : k \in 1..Len(sm)} \cup {{<<1, 1>>}}
         \cup {{sm[k] : k \in 1..Len(sm)} \cup {<<1, 1>>}}

\* set_keycode(matrix=matrix, layer=layer, keycode=keycode)
api_set_keycode ==
    /\ CanCallWithin(MaxKeyCalls)
    /\ \E matrix \in CallerPositions, layer \in LayerSamples, keycode \in KeycodeArgs :
         /\ loc' = [LocInit EXCEPT !.arg_m = matrix, !.arg_l = layer, !.arg_kc = keycode]
         /\ IF FitsUint16(keycode)
            THEN pc' = "k_set" /\ out' = out
            ELSE RaisePacking("struct.error")
    /\ h' = Called("set_keycode", 0)
    /\ UNCHANGED <<SessionVars, PortVars, led_map, eng>>

set_keycode_response ==
    /\ pc = "k_set" /\ eng.state = "ret"
    /\ pc' = "ready"
    /\ h' = [Returned(h) EXCEPT !.wrote_keys =
                {w \in @ : w[1] # <<loc.arg_m, loc.arg_l>>}
                \cup {<<(<<loc.arg_m, loc.arg_l>>), loc.arg_kc>>}]
    /\ eng' = EngIdle
    /\ UNCHANGED <<SessionVars, PortVars, led_map, loc, out>>

\* get_keycode(matrix=matrix, layer=layer)
api_get_keycode ==
    /\ CanCallWithin(MaxKeyCalls)
    /\ \E matrix \in CallerPositions, layer \in LayerSamples :
         loc' = [LocInit EXCEPT !.arg_m = matrix, !.arg_l = layer]
    /\ pc' = "k_get"
    /\ h' = Called("get_keycode", 0)
    /\ UNCHANGED <<SessionVars, PortVars, led_map, eng, out>>

get_keycode_response ==
    /\ pc = "k_get" /\ eng.state = "ret"
    /\ loc' = [loc EXCEPT !.res = get_keycode(eng.raw_data)]
    /\ pc' = "ready"
    /\ h' = Returned(h)
    /\ eng' = EngIdle
    /\ UNCHANGED <<SessionVars, PortVars, led_map, out>>

\* get_switch_matrix_state()
api_get_switch_matrix_state ==
    /\ CanCallWithin(MaxKeyCalls)
    /\ loc' = LocInit
    /\ pc' = "m_state"
    /\ h' = Called("get_switch_matrix_state", 0)
    /\ UNCHANGED <<SessionVars, PortVars, led_map, eng, out>>

get_switch_matrix_state_response ==
    /\ pc = "m_state" /\ eng.state = "ret"
    /\ loc' = [loc EXCEPT
                 !.active = get_switch_matrix_state(eng.raw_data, switch_matrix,
                                                    conversion_switch_matrix),
                 !.raw = eng.raw_data]
    /\ pc' = "ready"
    /\ h' = Returned(h)
    /\ eng' = EngIdle
    /\ UNCHANGED <<SessionVars, PortVars, led_map, out>>

\* A session over a keyboard of two rows, with or without a Conversion Table
KeyInit ==
    \E w \in 1..4, conv \in {NoTable, SyntheticConversion} :
        \E pressed \in PressedSamples(SyntheticMap(w)) :
            Ready("PI500PLUS", "ISO", SyntheticMap(w), conv, BuiltLeds(NumLeds),
                  [DevReady(2, 2, {"Pi 500+ Keyboard", "ISO"}) EXCEPT
                      !.pressed = pressed, !.rows = 2, !.width = w])

KeyNext ==
    \/ SendCheckFirst
    \/ api_set_keycode
    \/ set_keycode_response
    \/ api_get_keycode
    \/ get_keycode_response
    \/ api_get_switch_matrix_state
    \/ get_switch_matrix_state_response

KeySpec == KeyInit /\ [][KeyNext]_vars

\* Checked exchanges, with and without a subcommand, over a link on which a
\* response may be garbled and a read may time out
TimeoutInit ==
    /\ pc = "ready"
    /\ opened = TRUE
    /\ model = "PI500PLUS"
    /\ variant = "ISO"
    /\ switch_matrix = SyntheticMap(2)
    /\ conversion_switch_matrix = NoTable
    /\ led_map = BuiltLeds(NumLeds)
    /\ loc = LocInit
    /\ eng = EngIdle
    /\ rxq = <<>>
    /\ dev = [DevReady(2, 2, {"Pi 500+ Keyboard", "ISO"}) EXCEPT
                 !.rows = 2, !.width = 2]
    /\ env = "free"
    /\ h = [HistInit(0) EXCEPT !.logging = TRUE, !.was_opened = TRUE]
    /\ out = [error |-> "", msgs |-> {}]

TimeoutNext ==
    \/ SendCheckFirst
    \/ SendCheckRetry
    \/ SendCheckTimeout
    \/ api_get_keycode
    \/ get_keycode_response
    \/ api_get_saved_preset_index
    \/ get_preset_index_response

TimeoutSpec == TimeoutInit /\ [][TimeoutNext]_vars


(***************************************************************************)
(* Discovery: _search_devices over what enumerate_devices() lists.         *)
(***************************************************************************)
VIAL_SERIAL_NUMBER == "vial:f64c2b3c"

Descriptor(vid, pid, serial, page, usage, path) ==
    [vendor_id |-> vid, product_id |-> pid, serial_number |-> serial,
     usage_page |-> page, usage |-> usage, path |-> path]

\* The descriptors the system may list: the configuration interface of either
\* model, and interfaces that miss one of the six conditions each
DescriptorSamples ==
    {Descriptor(USB_VID_RASPBERRYPI, USB_PID_PI500_KEYBOARD, VIAL_SERIAL_NUMBER,
                USAGE_PAGE, USAGE, "a"),
     Descriptor(USB_VID_RASPBERRYPI, USB_PID_PI500PLUS_KEYBOARD, VIAL_SERIAL_NUMBER,
                USAGE_PAGE, USAGE, "b"),
     Descriptor(USB_VID_RASPBERRYPI, USB_PID_PI500PLUS_KEYBOARD, "other",
                USAGE_PAGE, USAGE, "c"),
     Descriptor(USB_VID_RASPBERRYPI, USB_PID_PI500_KEYBOARD, VIAL_SERIAL_NUMBER,
                1, USAGE, "d"),
     Descriptor(USB_VID_RASPBERRYPI, USB_PID_PI500_KEYBOARD, VIAL_SERIAL_NUMBER,
                USAGE_PAGE, 6, "e"),
     Descriptor(1133, USB_PID_PI500_KEYBOARD, VIAL_SERIAL_NUMBER,
                USAGE_PAGE, USAGE, "f"),
     Descriptor(USB_VID_RASPBERRYPI, 18, VIAL_SERIAL_NUMBER, USAGE_PAGE, USAGE, "g")}

\* enumerate_devices(): up to MaxDescs descriptors in any order
DescriptorLists ==
    UNION {[1..n -> DescriptorSamples] : n \in 0..MaxDescs}

\* _search_devices: rpi_keyboards
RpiKeyboards(devices) ==
    SelectSeq(devices,
              LAMBDA desc : /\ desc.vendor_id = USB_VID_RASPBERRYPI
                            /\ \/ desc.product_id = USB_PID_PI500_KEYBOARD
                               \/ desc.product_id = USB_PID_PI500PLUS_KEYBOARD)

\* VialKeyboards that does not look at the serial number
VialKeyboards_AnySerial(rpi_keyboards) ==
    SelectSeq(rpi_keyboards,
              LAMBDA desc : desc.usage_page = USAGE_PAGE /\ desc.usage = USAGE)

\* _search_devices: rpi_vial_keyboards
VialKeyboards(rpi_keyboards) ==
    SelectSeq(rpi_keyboards,
              LAMBDA desc : /\ desc.serial_number = VIAL_SERIAL_NUMBER
                            /\ desc.usage_page = USAGE_PAGE
                            /\ desc.usage = USAGE)

\* __init__ with path None: path = self._search_devices()
search_devices ==
    /\ pc = "search"
    /\ LET rpi_keyboards == RpiKeyboards(loc.descs)
           rpi_vial_keyboards == VialKeyboards(rpi_keyboards)
       IN  IF Len(rpi_keyboards) = 0
           THEN /\ out' = Raise("NoKeyboardFoundError", "No Raspberry Pi Keyboard found")
                /\ pc' = "raised"
                /\ loc' = loc
           ELSE IF Len(rpi_vial_keyboards) = 0
           THEN /\ out' = Raise("KeyboardNotCompatibleError",
                                "The Raspberry Pi Keyboard is not running compatible firmware")
                /\ pc' = "raised"
                /\ loc' = loc
           ELSE /\ out' =
                     IF Len(rpi_vial_keyboards) > 1
                        /\ Len(rpi_vial_keyboards) # Len(rpi_keyboards)
                     THEN Say(out, "Multiple keyboards found, using the first compatible one.")
                     ELSE IF Len(rpi_vial_keyboards) > 1
                     THEN Say(out, "Multiple keyboards found, using the first one.")
                     ELSE out
                /\ loc' = [loc EXCEPT !.path = rpi_vial_keyboards[1].path]
                /\ pc' = "new"
    /\ UNCHANGED <<SessionVars, PortVars, led_map, eng, h>>

\* __init__ is entered without a path; the system lists some descriptors
SearchInit ==
    /\ pc = "search"
    /\ opened = FALSE
    /\ model = "None"
    /\ variant = "None"
    /\ switch_matrix = NoTable
    /\ conversion_switch_matrix = NoTable
    /\ led_map = <<>>
    /\ \E ds \in DescriptorLists : loc = [LocInit EXCEPT !.descs = ds]
    /\ eng = EngIdle
    /\ rxq = <<>>
    /\ dev = DevInit(FALSE, FALSE, 2, 2, {"Pi 500+ Keyboard", "ISO"})
    /\ env = "scripted"
    /\ h = HistInit(0)
    /\ out = [error |-> "", msgs |-> {}]

SearchNext == search_devices

SearchSpec == SearchInit /\ [][SearchNext]_vars


(***************************************************************************)
(* Argument ranges: the setters called with values inside and outside the  *)
(* ranges their fields have.                                               *)
(***************************************************************************)
ByteArgs == {10, 255, 256, -1}

\* set_current_preset_index(preset_index, save_index)
api_set_current_preset_index ==
    /\ CanCallWithin(MaxPresetCalls)
    /\ \E preset_index \in {0, TEMP_PRESET_INDEX, TEMP_PRESET_INDEX + 1, 256},
          save_index \in BOOLEAN :
         /\ loc' = [LocInit EXCEPT !.arg_k = preset_index, !.arg_save = save_index]
         /\ IF FitsByte(preset_index)
            THEN pc' = "p_seti" /\ out' = out
            ELSE RaisePacking("struct.error")
    /\ h' = Called("set_current_preset_index", 0)
    /\ UNCHANGED <<SessionVars, PortVars, led_map, eng>>

\* set_hue(hue)
api_set_hue ==
    /\ CanCallWithin(MaxPresetCalls)
    /\ \E hue \in ByteArgs :
         /\ loc' = [LocInit EXCEPT !.arg_k = hue]
         /\ IF FitsByte(hue)
            THEN pc' = "p_hue" /\ out' = out
            ELSE RaisePacking("OverflowError")
    /\ h' = Called("set_hue", 0)
    /\ UNCHANGED <<SessionVars, PortVars, led_map, eng>>

\* set_brightness(brightness)
api_set_brightness ==
    /\ CanCallWithin(MaxPresetCalls)
    /\ \E brightness \in ByteArgs :
         /\ loc' = [LocInit EXCEPT !.arg_k = brightness]
         /\ IF FitsByte(brightness)
            THEN pc' = "p_bri" /\ out' = out
            ELSE RaisePacking("OverflowError")
    /\ h' = Called("set_brightness", 0)
    /\ UNCHANGED <<SessionVars, PortVars, led_map, eng>>

\* set_current_preset_index, set_hue, set_brightness: the command is answered
set_value_response ==
    /\ pc \in {"p_seti", "p_hue", "p_bri"} /\ eng.state = "ret"
    /\ pc' = "ready"
    /\ h' = Returned(h)
    /\ eng' = EngIdle
    /\ UNCHANGED <<SessionVars, PortVars, led_map, loc, out>>

\* Device.close that calls hid_close whether or not the handle is there
DeviceClose_Always(is_open) == [call |-> TRUE, open |-> FALSE]

\* RPiKeyboardConfig.close over Device.close: hid_close is called when there
\* is a _device and its handle is set; the handle is None afterwards
DeviceClose(is_open) == [call |-> is_open, open |-> FALSE]

\* close()
api_close ==
    /\ pc \in {"ready", "raised"}
    /\ eng.state \in {"idle", "raised"}
    /\ h.closes < MaxCloses
    /\ LET r == DeviceClose(opened)
       IN  /\ opened' = r.open
           /\ h' = [h EXCEPT !.closes = @ + 1,
                             !.hid_closes = IF r.call THEN @ + 1 ELSE @]
    /\ UNCHANGED <<pc, model, variant, switch_matrix, conversion_switch_matrix,
                   led_map, loc, eng, rxq, dev, env, out>>

\* Device.write on a closed handle: HIDException('device closed')
send_on_closed ==
    /\ eng.state = "idle"
    /\ pc \in CheckedSites \cup RawSites
    /\ ~opened
    /\ pc' = "raised"
    /\ out' = Raise("HIDException", "device closed")
    /\ UNCHANGED <<SessionVars, PortVars, led_map, loc, eng, h>>

\* The commands handed to _send_command: one byte, MSG_LEN bytes, one more
CommandArgs == {<<CMD_GET_PROTOCOL_VERSION>>, Fill(MSG_LEN, 7), Fill(MSG_LEN + 1, 7)}

\* _send_command(command)
api_send_command ==
    /\ CanCallWithin(MaxPresetCalls)
    /\ \E command \in CommandArgs :
         /\ loc' = [LocInit EXCEPT !.raw = command]
         /\ IF PackFails(command)
            THEN RaisePacking("struct.error")
            ELSE pc' = "x_send" /\ out' = out
    /\ h' = Called("_send_command", 0)
    /\ UNCHANGED <<SessionVars, PortVars, led_map, eng>>

\* _send_command returns the response
send_command_response ==
    /\ pc = "x_send" /\ eng.state = "ret"
    /\ pc' = "ready"
    /\ h' = Returned(h)
    /\ eng' = EngIdle
    /\ UNCHANGED <<SessionVars, PortVars, led_map, loc, out>>

ArgInit ==
    \/ ReadyWith("PI500PLUS", "ISO", SWITCH_MATRIX_PI500PLUS_ISO, NoTable,
                 BuiltLeds(NumLeds), DevReady(2, 2, {"Pi 500+ Keyboard", "ISO"}),
                 [HistInit(0) EXCEPT !.logging = TRUE, !.was_opened = TRUE,
                                     !.cap = MaxArgCalls])
    \/ Unopened(DevReady(2, 2, {"Pi 500+ Keyboard", "ISO"}),
                [HistInit(0) EXCEPT !.logging = TRUE, !.cap = MaxArgCalls])

ArgNext ==
    \/ SendCheckFirst
    \/ api_set_current_preset_index
    \/ api_set_hue
    \/ api_set_brightness
    \/ set_value_response
    \/ api_set_preset
    \/ set_preset_response
    \/ api_get_preset
    \/ get_preset_response
    \/ api_set_keycode
    \/ set_keycode_response
    \/ api_set_led_by_matrix
    \/ api_close
    \/ send_on_closed
    \/ SendRaw
    \/ api_send_command
    \/ send_command_response

ArgSpec == ArgInit /\ [][ArgNext]_vars

\* A constructed session whose directory holds a colour, the calls that
\* exchange frames, and close()
ClosedInit ==
    \E colour \in ColourSamples :
        ReadyWith("PI500PLUS", "ISO", SWITCH_MATRIX_PI500PLUS_ISO, NoTable,
                  set_led_by_idx(BuiltLeds(NumLeds), 0, colour),
                  [DevReady(2, 2, {"Pi 500+ Keyboard", "ISO"}) EXCEPT
                      !.leds = [k \in 1..NumLeds |-> <<9, 9, 9>>]],
                  [HistInit(0) EXCEPT !.logging = TRUE, !.was_opened = TRUE,
                                      !.cap = MaxCalls])

ClosedNext ==
    \/ SendCheckFirst
    \/ api_close
    \/ send_on_closed
    \/ api_rgb_clear
    \/ api_send_leds
    \/ send_leds_response
    \/ api_get_current_direct_leds
    \/ get_current_direct_leds_response
    \/ api_get_saved_preset_index
    \/ get_preset_index_response
    \/ api_set_led_by_idx

ClosedSpec == ClosedInit /\ [][ClosedNext]_vars


(***************************************************************************)
(* The effect catalogue and the CLI commands that write presets.  Each CLI *)
(* run is a process of its own: it constructs the session, runs one        *)
(* command, closes the session and ends.                                   *)
(***************************************************************************)
\* What parse_preset_data makes of the effect argument: a supported id on the
\* first page and one on the second, an id the keyboard does not have, skip
\* (as "65535" or by name), and None for a name the catalogue does not hold
EffectArgs == {1, effects_per_page + 2, 999, VIALRGB_EFFECT_SKIP, None}

\* parse_preset_data: the Preset it returns for valid speed, hue, sat
CliPreset(effect_id) ==
    [flags |-> LED_FLAG_ALL, effect |-> effect_id, speed |-> 128, fixed_hue |-> FALSE,
     startup_animation |-> START_ANIM_B_FADE_VAL, hue |-> 0, sat |-> 255]

\* get_supported_effects()
api_get_supported_effects ==
    /\ CanCallWithin(MaxCliRuns)
    /\ h' = Called("get_supported_effects", 0)
    /\ IF model = "PI500"
       THEN /\ out' = Raise("KeyboardNotCompatibleError",
                            "PI500 does not support RGB operations")
            /\ pc' = "raised"
            /\ loc' = LocInit
       ELSE /\ pc' = "e_page"
            /\ loc' = [LocInit EXCEPT !.effects = InitialEffects, !.max_effect = 0,
                                      !.effects_list = InitialEffectsList]
            /\ out' = out
    /\ UNCHANGED <<SessionVars, PortVars, led_map, eng>>

\* The command stops before it touches the keyboard
CliStops(o, how) ==
    /\ out' = o
    /\ pc' = how
    /\ loc' = LocInit

\* rpi-keyboard-config effect EFFECT
cli_effect ==
    /\ CanCallWithin(MaxCliRuns)
    /\ h' = Called("effect", 0)
    /\ \E effect_id \in EffectArgs :
         IF model = "PI500"
         THEN CliStops(Say(out, "PI500 does not support RGB operations"), "exit")
         ELSE IF effect_id = None
         THEN CliStops(Raise("ValueError", "Invalid effect"), "raised")
         ELSE /\ pc' = "e_page"
              /\ loc' = [LocInit EXCEPT !.effects = InitialEffects, !.max_effect = 0,
                                         !.arg_k = TEMP_PRESET_INDEX,
                                         !.arg_p = CliPreset(effect_id)]
              /\ out' = out
    /\ UNCHANGED <<SessionVars, PortVars, led_map, eng>>

\* rpi-keyboard-config preset set INDEX --effect EFFECT
cli_preset_set ==
    /\ CanCallWithin(MaxCliRuns)
    /\ h' = Called("preset_set", 0)
    /\ \E preset_index \in {0, TEMP_PRESET_INDEX - 1, TEMP_PRESET_INDEX},
          effect_id \in EffectArgs :
         IF model = "PI500"
         THEN CliStops(Say(out, "PI500 does not support RGB operations"), "exit")
         ELSE IF preset_index > 6
         THEN CliStops(Raise("ValueError", "Preset index must be between 0 and 6"),
                       "raised")
         ELSE IF effect_id = None
         THEN CliStops(Raise("ValueError", "Invalid effect"), "raised")
         ELSE /\ pc' = "e_page"
              /\ loc' = [LocInit EXCEPT !.effects = InitialEffects, !.max_effect = 0,
                                         !.arg_k = preset_index,
                                         !.arg_p = CliPreset(effect_id)]
              /\ out' = out
    /\ UNCHANGED <<SessionVars, PortVars, led_map, eng>>

\* rpi-keyboard-config preset index INDEX
cli_preset_index ==
    /\ CanCallWithin(MaxCliRuns)
    /\ h' = Called("preset_index", 0)
    /\ \E preset_index \in {0, TEMP_PRESET_INDEX} :
         IF model = "PI500"
         THEN CliStops(Say(out, "PI500 does not support RGB operations"), "exit")
         ELSE /\ pc' = "c_seti"
              /\ loc' = [LocInit EXCEPT !.arg_k = preset_index, !.arg_save = TRUE]
              /\ out' = out
    /\ UNCHANGED <<SessionVars, PortVars, led_map, eng>>

\* get_supported_effects: one page is answered.  The loop goes on while no
\* sentinel was seen and max_effect < 0xFFFF; when the list is returned to
\* parse_preset_data the effect is looked up in it, and the command goes on to
\* set_temp_effect or set_preset
supported_effects_page ==
    /\ pc = "e_page" /\ eng.state = "ret"
    /\ LET r == ScanPage(EffectsPage(eng.raw_data), 1, loc.effects, loc.max_effect)
           l == [loc EXCEPT !.effects = r.effects, !.max_effect = r.max_effect,
                            !.effects_list =
                                IF h.logging
                                THEN @ \o AppendedEffects(EffectsPage(eng.raw_data), 1)
                                ELSE @]
           effect_id == loc.arg_p.effect
       IN  IF ~r.returned /\ r.max_effect < VIALRGB_EFFECT_SKIP
           THEN /\ loc' = l
                /\ UNCHANGED <<pc, h, out>>
           ELSE IF h.op = "get_supported_effects"
           THEN /\ loc' = l
                /\ pc' = "ready"
                /\ h' = Returned(h)
                /\ out' = out
           ELSE IF effect_id \notin r.effects
           THEN /\ loc' = l
                /\ out' = Raise("ValueError", "Invalid effect")
                /\ pc' = "raised"
                /\ h' = h
           ELSE IF h.op = "effect"
           THEN /\ loc' = l
                /\ pc' = "c_tset"
                /\ UNCHANGED <<h, out>>
           ELSE IF loc.arg_k = 0 /\ effect_id = VIALRGB_EFFECT_SKIP
           THEN /\ loc' = l
                /\ out' = Raise("ValueError", "Cannot set preset 0 to skip effect")
                /\ pc' = "raised"
                /\ h' = h
           ELSE /\ loc' = l
                /\ pc' = "c_set"
                /\ UNCHANGED <<h, out>>
    /\ eng' = EngIdle
    /\ UNCHANGED <<SessionVars, PortVars, led_map>>

\* effect: set_temp_effect's set_preset(7, preset) is answered
cli_effect_set_preset ==
    /\ pc = "c_tset" /\ eng.state = "ret"
    /\ pc' = "c_tsel"
    /\ eng' = EngIdle
    /\ UNCHANGED <<SessionVars, PortVars, led_map, loc, h, out>>

\* The last exchange of the command is answered; the CLI prints its line
cli_command_done ==
    /\ pc \in {"c_tsel", "c_set", "c_seti"} /\ eng.state = "ret"
    /\ pc' = "exit"
    /\ out' = Say(out, CASE pc = "c_tsel" -> "Effect set successfully:"
                          [] pc = "c_set" -> "Preset set to:"
                          [] OTHER -> "Preset index set")
    /\ h' = Returned(h)
    /\ eng' = EngIdle
    /\ UNCHANGED <<SessionVars, PortVars, led_map, loc>>

\* main: keyboard.close() after the command
cli_close ==
    /\ pc = "exit"
    /\ opened' = DeviceClose(opened).open
    /\ pc' = "closed"
    /\ h' = [h EXCEPT !.closes = IF @ < MaxCloses THEN @ + 1 ELSE @]
    /\ UNCHANGED <<model, variant, switch_matrix, conversion_switch_matrix,
                   led_map, loc, eng, rxq, dev, env, out>>

\* The next run of the CLI constructs its session over the same keyboard
cli_start ==
    /\ pc \in {"closed", "raised"}
    /\ h.calls < h.cap
    /\ pc' = "ready"
    /\ opened' = TRUE
    /\ loc' = LocInit
    /\ eng' = EngIdle
    /\ out' = [error |-> "", msgs |-> {}]
    /\ UNCHANGED <<model, variant, switch_matrix, conversion_switch_matrix,
                   led_map, rxq, dev, env, h>>

PagingModes == {"chain", "repeat", "zero", "mixed"}

\* How many effects the keyboard has: none, one, a page less one, a page,
\* more than a page, more than two pages
EffectCounts ==
    {0, 1, 2, effects_per_page - 1, effects_per_page, effects_per_page + 2,
     2 * effects_per_page, 2 * effects_per_page + 1}

\* get_supported_effects() alone, against keyboards whose enumeration ends;
\* the library caller's list is followed in order
EffectInit ==
    \/ \E paging \in {"chain", "mixed"}, n \in EffectCounts :
          ReadyWith("PI500PLUS", "ISO", SWITCH_MATRIX_PI500PLUS_ISO, NoTable,
                    BuiltLeds(NumLeds),
                    [DevReady(2, 2, {"Pi 500+ Keyboard", "ISO"}) EXCEPT
                        !.paging = paging, !.effects = [k \in 1..n |-> 20 * k]],
                    [HistInit(0) EXCEPT !.was_opened = TRUE, !.logging = TRUE,
                                        !.cap = MaxCliRuns])
    \/ ReadyWith("PI500", "ISO", SWITCH_MATRIX_PI500,
                 SWITCH_MATRIX_CONVERSION_PI500_ISO, Pi500Leds,
                 DevReady(2, 2, {"Pi 500 Keyboard"}),
                 [HistInit(0) EXCEPT !.was_opened = TRUE, !.logging = TRUE,
                                     !.cap = MaxCliRuns])

EffectNext ==
    \/ SendCheckFirst
    \/ api_get_supported_effects
    \/ supported_effects_page

EffectSpec == EffectInit /\ [][EffectNext]_vars

CliInit ==
    \/ \E paging \in PagingModes :
          ReadyWith("PI500PLUS", "ISO", SWITCH_MATRIX_PI500PLUS_ISO, NoTable,
                    BuiltLeds(NumLeds),
                    [DevReady(2, 2, {"Pi 500+ Keyboard", "ISO"}) EXCEPT
                        !.paging = paging],
                    [HistInit(0) EXCEPT !.was_opened = TRUE, !.cap = MaxCliRuns])
    \/ ReadyWith("PI500", "ISO", SWITCH_MATRIX_PI500,
                 SWITCH_MATRIX_CONVERSION_PI500_ISO, Pi500Leds,
                 DevReady(2, 2, {"Pi 500 Keyboard"}),
                 [HistInit(0) EXCEPT !.was_opened = TRUE, !.cap = MaxCliRuns])

CliNext ==
    \/ SendCheckFirst
    \/ api_get_supported_effects
    \/ cli_effect
    \/ cli_preset_set
    \/ cli_preset_index
    \/ supported_effects_page
    \/ cli_effect_set_preset
    \/ cli_command_done
    \/ cli_close
    \/ cli_start

CliSpec == CliInit /\ [][CliNext]_vars

\* The command in hand is not left half done
FairCliSpec == CliSpec /\ WF_vars(CliNext)


(***************************************************************************)
(* The long-running loops: the CLI's key watch, the game and random-leds.  *)
(* Each runs until the exit key is seen in the matrix state or the process *)
(* is interrupted (KeyboardInterrupt).                                     *)
(***************************************************************************)
\* A map with the game's quit key in it
SWITCH_MATRIX_LOOPS == <<(<<5, 0>>), (<<5, 1>>), (<<0, 0>>), (<<2, 2>>)>>

\* The keys the user works while a loop runs
LoopKeys == {<<5, 0>>, <<5, 1>>, <<2, 2>>}

\* key watch: parse_keycode(args.exit_key)
exit_keycode == 5

\* game: quit_pressed = [2, 2] in active_keys
QuitPosition == <<2, 2>>

White == <<255, 255, 255>>

Black == <<0, 0, 0>>

InSeq(x, s) == \E k \in 1..Len(s) : s[k] = x

\* send_leds() from a loop, then on to `after`: nothing is written when the
\* directory is empty or the model is PI500
SendLedsThen(l, leds, after) ==
    IF model = "PI500" \/ Len(leds) = 0
    THEN [pc |-> after, loc |-> l]
    ELSE [pc |-> "w_leds", loc |-> [l EXCEPT !.sent = 0, !.after = after]]

\* led set / leds set: the colour parse_colour returns for a valid argument
LedSetColour == <<85, 255, 255>>

\* The user presses or releases a key
press_key ==
    /\ h.events < MaxKeyEvents
    /\ pc \notin {"ready", "returned", "unlocking"}
    /\ loc.prog \in {"watch", "game", "random"}
    /\ \E key \in LoopKeys :
         dev' = [dev EXCEPT !.pressed = IF key \in @ THEN @ \ {key} ELSE @ \cup {key}]
    /\ h' = [h EXCEPT !.events = @ + 1]
    /\ UNCHANGED <<pc, SessionVars, led_map, loc, eng, rxq, env, out>>

\* rpi-keyboard-config key watch [--no-leds]
cli_key_watch ==
    /\ pc = "ready" /\ eng.state = "idle"
    /\ \E no_leds \in BOOLEAN :
         loc' = [LocInit EXCEPT !.prog = "watch",
                                !.use_leds = ~no_leds /\ model # "PI500"]
    /\ pc' = "w_status"
    /\ h' = Called("key_watch", 0)
    /\ UNCHANGED <<SessionVars, PortVars, led_map, eng, out>>

\* game / random-leds: RPiKeyboardConfig() once more, over the keyboard main()
\* has open; the new object owns the second handle (loc.own).  Whether the
\* transport grants a second open is the platform's choice
OwnSession(l, first) ==
    \E ok \in BOOLEAN :
        IF ok
        THEN /\ loc' = [l EXCEPT !.own = TRUE]
             /\ pc' = first
             /\ out' = out
        ELSE CliStops(Raise("KeyboardNotCompatibleError",
                            "Unable to connect to the keyboard"), "raised")

\* FlappyBirdGame(): its own session, get_number_leds first
game_main ==
    /\ pc = "ready" /\ eng.state = "idle"
    /\ h' = Called("game", 0)
    /\ IF model = "PI500"
       THEN CliStops(Say(out, "PI500 does not support RGB operations"), "returned")
       ELSE OwnSession([LocInit EXCEPT !.prog = "game", !.use_leds = TRUE], "w_num")
    /\ UNCHANGED <<SessionVars, PortVars, led_map, eng>>

\* random_leds.main(): the try block starts with set_led_direct_effect
random_leds_main ==
    /\ pc = "ready" /\ eng.state = "idle"
    /\ h' = Called("random_leds", 0)
    /\ IF model = "PI500"
       THEN CliStops(Say(out, "PI500 does not support RGB operations"), "returned")
       ELSE OwnSession([LocInit EXCEPT !.prog = "random", !.use_leds = TRUE,
                                      !.looping = TRUE], "w_sp7")
    /\ UNCHANGED <<SessionVars, PortVars, led_map, eng>>

\* get_number_leds() is answered
loop_get_number_leds ==
    /\ pc = "w_num" /\ eng.state = "ret"
    /\ LET num_leds == UnLE16(Slice(eng.raw_data, 2, 4))
           l == [loc EXCEPT !.num_leds = num_leds]
           all == [k \in 1..Len(led_map) |->
                     IF k <= num_leds THEN [led_map[k] EXCEPT !.colour = LedSetColour]
                     ELSE led_map[k]]
           s == SendLedsThen(l, all, "w_close")
       IN  CASE loc.prog = "leds_set" ->
                  \* set_led_by_idx for every idx in range(num_leds), send_leds()
                  /\ pc' = s.pc
                  /\ loc' = s.loc
                  /\ led_map' = all
                  /\ out' = out
             [] loc.prog = "led_set" ->
                  \* the index is checked against num_leds, then
                  \* set_led_by_idx and send_led_by_idx
                  IF loc.arg_k >= 0 /\ loc.arg_k < num_leds
                  THEN /\ pc' = "w_led1"
                       /\ loc' = l
                       /\ led_map' = set_led_by_idx(led_map, loc.arg_k, LedSetColour)
                       /\ out' = out
                  ELSE /\ pc' = "returned"
                       /\ loc' = l
                       /\ led_map' = led_map
                       /\ out' = Say(out, "Error: LED index must be between 0 and n - 1")
             [] OTHER ->
                  /\ pc' = IF loc.prog = "game" THEN "w_status" ELSE "g_frame"
                  /\ loc' = l
                  /\ UNCHANGED <<led_map, out>>
    /\ eng' = EngIdle
    /\ UNCHANGED <<SessionVars, PortVars, h>>

\* led set: send_led_by_idx is answered
loop_send_led_by_idx ==
    /\ pc = "w_led1" /\ eng.state = "ret"
    /\ pc' = "w_close"
    /\ eng' = EngIdle
    /\ UNCHANGED <<SessionVars, PortVars, led_map, loc, h, out>>

\* get_unlock_status() is answered: key watch refuses a locked keyboard, the
\* game goes into unlock() (followed in Spec, not here)
loop_get_unlock_status ==
    /\ pc = "w_status" /\ eng.state = "ret"
    /\ LET st == get_unlock_status(eng.raw_data, switch_matrix, conversion_switch_matrix)
       IN  IF st.unlocked = 0
           THEN /\ pc' = IF loc.prog = "game" THEN "unlocking" ELSE "returned"
                /\ out' = IF loc.prog = "game" THEN out
                          ELSE Say(out, "ERROR: Keyboard is locked")
           ELSE /\ pc' = IF loc.prog = "game" THEN "w_sp7"
                          ELSE IF loc.use_leds THEN "w_idx" ELSE "w_state"
                /\ out' = out
    /\ loc' = [loc EXCEPT !.looping = loc.prog = "watch" /\ ~loc.use_leds]
    /\ eng' = EngIdle
    /\ UNCHANGED <<SessionVars, PortVars, led_map, h>>

\* key watch, get_current_effect: get_current_preset_index() is answered
watch_get_current_preset_index ==
    /\ pc = "w_idx" /\ eng.state = "ret"
    /\ loc' = [loc EXCEPT !.arg_k = get_current_preset_index(eng.raw_data)]
    /\ pc' = "w_get"
    /\ eng' = EngIdle
    /\ UNCHANGED <<SessionVars, PortVars, led_map, h, out>>

\* rpi-keyboard-config led set POSITION COLOUR / leds set COLOUR: the command
\* starts with get_current_effect(); the colour argument parses or does not
cli_led_set ==
    /\ pc = "ready" /\ eng.state = "idle"
    /\ h' = Called("led_set", 0)
    /\ \E cmd \in {"led_set", "leds_set"}, ok \in BOOLEAN,
          led_idx \in {0, Len(led_map)} :
         IF model = "PI500"
         THEN CliStops(Say(out, "PI500 does not support LED operations"), "returned")
         ELSE /\ loc' = [LocInit EXCEPT !.prog = cmd, !.colour_ok = ok,
                                        !.arg_k = led_idx]
              /\ pc' = "w_idx"
              /\ out' = out
    /\ UNCHANGED <<SessionVars, PortVars, led_map, eng>>

\* What follows once the direct effect is on.  key watch: rgb_clear() and
\* the loop.  led set / leds set: parse_colour(args.colour), which prints the
\* error and returns 1 for an invalid colour, then get_number_leds()
AfterDirect(l) ==
    IF l.prog \in {"led_set", "leds_set"}
    THEN IF l.colour_ok
         THEN [pc |-> "w_num", loc |-> l, leds |-> led_map, out |-> out]
         ELSE [pc |-> "returned", loc |-> l, leds |-> led_map,
               out |-> Say(out, "Error: Invalid colour format")]
    ELSE LET s == SendLedsThen([l EXCEPT !.looping = TRUE], led_map, "w_state")
         IN  [pc |-> s.pc, loc |-> s.loc, leds |-> rgb_clear(led_map), out |-> out]

\* After get_current_effect: set_led_direct_effect() unless the effect is the
\* direct one already
AfterCurrentEffect(l) ==
    IF l.preset.effect # VIALRGB_EFFECT_DIRECT
    THEN [pc |-> "w_sp7", loc |-> l, leds |-> led_map, out |-> out]
    ELSE AfterDirect(l)

\* key watch, get_current_effect: get_preset() is answered
watch_get_preset ==
    /\ pc = "w_get" /\ eng.state = "ret"
    /\ LET l == [loc EXCEPT !.preset = get_preset(eng.raw_data)]
           a == AfterCurrentEffect(l)
       IN  IF l.preset.fixed_hue = 0
           THEN /\ pc' = "w_hue"
                /\ loc' = l
                /\ led_map' = led_map
           ELSE /\ pc' = a.pc
                /\ loc' = a.loc
                /\ led_map' = a.leds
    /\ out' = out
    /\ eng' = EngIdle
    /\ UNCHANGED <<SessionVars, PortVars, h>>

\* key watch, get_current_effect: get_hue() is answered
watch_get_hue ==
    /\ pc = "w_hue" /\ eng.state = "ret"
    /\ LET a == AfterCurrentEffect([loc EXCEPT !.preset.hue = eng.raw_data[3]])
       IN  /\ pc' = a.pc
           /\ loc' = a.loc
           /\ led_map' = a.leds
           /\ out' = a.out
    /\ eng' = EngIdle
    /\ UNCHANGED <<SessionVars, PortVars, h>>

\* set_led_direct_effect: set_preset(7, preset) is answered
loop_set_preset ==
    /\ pc = "w_sp7" /\ eng.state = "ret"
    /\ pc' = "w_si7"
    /\ eng' = EngIdle
    /\ UNCHANGED <<SessionVars, PortVars, led_map, loc, h, out>>

\* set_led_direct_effect: set_current_preset_index(7, save_index=False) is
\* answered.  key watch clears the LEDs and enters its loop, the game enters
\* run(), random-leds asks for the number of LEDs
loop_set_current_preset_index ==
    /\ pc = "w_si7" /\ eng.state = "ret"
    /\ LET s == AfterDirect(loc)
       IN  CASE loc.prog \in {"watch", "led_set", "leds_set"} ->
                  /\ pc' = s.pc
                  /\ loc' = s.loc
                  /\ led_map' = s.leds
                  /\ out' = s.out
             [] loc.prog = "game" ->
                  /\ pc' = "g_frame"
                  /\ loc' = [loc EXCEPT !.looping = TRUE]
                  /\ UNCHANGED <<led_map, out>>
             [] OTHER ->
                  /\ pc' = "w_num"
                  /\ UNCHANGED <<loc, led_map, out>>
    /\ eng' = EngIdle
    /\ UNCHANGED <<SessionVars, PortVars, h>>

\* game / random-leds: one frame is drawn (some LED set to some colour) and
\* send_leds() called
loop_frame ==
    /\ pc = "g_frame"
    /\ h.loops < MaxFrames
    /\ \E idx \in LedIndexSamples(led_map), colour \in {White, Black} :
         LET leds == set_led_by_idx(led_map, idx, colour)
             s == SendLedsThen(loc, leds,
                               IF loc.prog = "game" THEN "w_state" ELSE "g_frame")
         IN  /\ led_map' = leds
             /\ pc' = s.pc
             /\ loc' = s.loc
    /\ h' = [h EXCEPT !.loops = @ + 1]
    /\ UNCHANGED <<SessionVars, PortVars, eng, out>>

\* send_leds: one packet is answered; after the last one the caller goes on.
\* The finally blocks of game and random-leds call send_leds() once more
\* after rgb_clear()
loop_send_leds ==
    /\ pc = "w_leds" /\ eng.state = "ret"
    /\ LET sent == loc.sent + SendLedsCount(led_map, loc.sent)
       IN  IF sent < Len(led_map)
           THEN /\ loc' = [loc EXCEPT !.sent = sent]
                /\ pc' = pc
           ELSE IF loc.after = "w_fsend"
           THEN /\ loc' = [loc EXCEPT !.sent = 0, !.after = "w_rev_get"]
                /\ pc' = pc
           ELSE /\ loc' = [loc EXCEPT !.sent = sent]
                /\ pc' = loc.after
    /\ eng' = EngIdle
    /\ UNCHANGED <<SessionVars, PortVars, led_map, h, out>>

\* The cleanup a loop runs when it stops on its own handler or finally block:
\* key watch (except KeyboardInterrupt) rgb_clear and revert_to_saved_preset
\* when LEDs are in use, then keyboard.close(); game and random-leds (finally)
\* rgb_clear, send_leds, revert_to_saved_preset, close
Cleanup(l) ==
    IF l.prog = "watch"
    THEN IF l.use_leds
         THEN LET s == SendLedsThen(l, led_map, "w_rev_get")
              IN  [pc |-> s.pc, loc |-> s.loc, leds |-> rgb_clear(led_map)]
         ELSE [pc |-> "w_close", loc |-> l, leds |-> led_map]
    ELSE LET s == SendLedsThen(l, led_map, "w_fsend")
         IN  [pc |-> IF s.pc = "w_fsend" THEN "w_rev_get" ELSE s.pc,
              loc |-> s.loc, leds |-> rgb_clear(led_map)]

\* key watch: what follows one key of the iteration: the next newly pressed
\* key, else the next newly released one, else send_leds() if anything
\* changed, and the next iteration
NextKey(l, leds) ==
    IF l.newly_pressed # <<>>
    THEN [pc |-> "w_key", loc |-> [l EXCEPT !.arg_m = Head(l.newly_pressed)]]
    ELSE IF l.newly_released # <<>>
    THEN [pc |-> "w_key", loc |-> [l EXCEPT !.arg_m = Head(l.newly_released)]]
    ELSE LET n == [l EXCEPT !.active_keys_prev = l.active]
         IN  IF l.use_leds /\ l.changed
             THEN SendLedsThen(n, leds, "w_state")
             ELSE [pc |-> "w_state", loc |-> n]

\* get_switch_matrix_state() is answered.  The game looks for its quit key
\* and breaks out to the finally block; key watch works out which keys are
\* newly pressed and newly released
loop_get_switch_matrix_state ==
    /\ pc = "w_state" /\ eng.state = "ret"
    /\ LET active == get_switch_matrix_state(eng.raw_data, switch_matrix,
                                             conversion_switch_matrix)
           pressed == SelectSeq(active, LAMBDA m : ~InSeq(m, loc.active_keys_prev))
           released == SelectSeq(loc.active_keys_prev, LAMBDA m : ~InSeq(m, active))
           l == [loc EXCEPT !.active = active, !.newly_pressed = pressed,
                            !.newly_released = released,
                            !.changed = pressed # <<>> \/ released # <<>>,
                            !.arg_l = 0]
           n == NextKey(l, led_map)
           c == Cleanup([loc EXCEPT !.active = active, !.stop = "exit_key"])
       IN  IF loc.prog = "game"
           THEN IF InSeq(QuitPosition, active)
                THEN /\ pc' = c.pc
                     /\ loc' = c.loc
                     /\ led_map' = c.leds
                ELSE /\ pc' = "g_frame"
                     /\ loc' = [loc EXCEPT !.active = active]
                     /\ led_map' = led_map
           ELSE /\ pc' = n.pc
                /\ loc' = n.loc
                /\ led_map' = led_map
    /\ eng' = EngIdle
    /\ UNCHANGED <<SessionVars, PortVars, h, out>>

\* key watch: set_led_by_matrix inside try / except Exception
WatchSetLed(leds, matrix, colour) ==
    LET idx == led_matrix_to_idx(leds, matrix, model, switch_matrix,
                                 conversion_switch_matrix)
    IN  IF idx = None THEN leds ELSE set_led_by_idx(leds, idx, colour)

\* key watch: get_keycode() of a newly pressed or newly released key is
\* answered.  The exit key: rgb_clear() when LEDs are in use, and return 0
watch_get_keycode ==
    /\ pc = "w_key" /\ eng.state = "ret"
    /\ LET keycode == get_keycode(eng.raw_data)
           press == loc.newly_pressed # <<>>
           leds == IF ~loc.use_leds THEN led_map
                   ELSE WatchSetLed(led_map, loc.arg_m, IF press THEN White ELSE Black)
           l == IF press THEN [loc EXCEPT !.newly_pressed = Tail(@)]
                ELSE [loc EXCEPT !.newly_released = Tail(@)]
           n == NextKey(l, leds)
           x == SendLedsThen([loc EXCEPT !.stop = "exit_key"], led_map, "returned")
       IN  IF press /\ keycode = exit_keycode
           THEN IF loc.use_leds
                THEN /\ pc' = x.pc
                     /\ loc' = x.loc
                     /\ led_map' = rgb_clear(led_map)
                     /\ out' = Say(out, "Exit key pressed. Stopping...")
                ELSE /\ pc' = "returned"
                     /\ loc' = [loc EXCEPT !.stop = "exit_key"]
                     /\ led_map' = led_map
                     /\ out' = Say(out, "Exit key pressed. Stopping...")
           ELSE /\ pc' = n.pc
                /\ loc' = n.loc
                /\ led_map' = leds
                /\ out' = out
    /\ eng' = EngIdle
    /\ UNCHANGED <<SessionVars, PortVars, h>>

\* KeyboardInterrupt while the loop runs
loop_interrupt ==
    /\ loc.looping /\ loc.stop = ""
    /\ pc \in {"w_sp7", "w_si7", "w_num", "w_state", "w_key", "w_leds", "g_frame"}
    /\ LET c == Cleanup([loc EXCEPT !.stop = "interrupt"])
       IN  /\ pc' = c.pc
           /\ loc' = c.loc
           /\ led_map' = c.leds
    /\ eng' = EngIdle
    /\ out' = Say(out, "interrupted")
    /\ UNCHANGED <<SessionVars, PortVars, h>>

\* revert_to_saved_preset: the saved index arrives
loop_revert_get_saved_preset_index ==
    /\ pc = "w_rev_get" /\ eng.state = "ret"
    /\ loc' = [loc EXCEPT !.saved = get_saved_preset_index(eng.raw_data)]
    /\ pc' = "w_rev_set"
    /\ eng' = EngIdle
    /\ UNCHANGED <<SessionVars, PortVars, led_map, h, out>>

\* revert_to_saved_preset: set_current_preset_index(saved) is answered
loop_revert_set_current_preset_index ==
    /\ pc = "w_rev_set" /\ eng.state = "ret"
    /\ pc' = "w_close"
    /\ eng' = EngIdle
    /\ UNCHANGED <<SessionVars, PortVars, led_map, loc, h, out>>

\* game / random-leds, finally: the loop's own session is closed; control
\* goes back to main()
loop_close_own ==
    /\ pc = "w_close"
    /\ loc.own
    /\ loc' = [loc EXCEPT !.own = DeviceClose(loc.own).open]
    /\ UNCHANGED <<pc, SessionVars, PortVars, led_map, eng, h, out>>

\* main: keyboard.close(), and the program returns
loop_close ==
    /\ pc = "w_close"
    /\ ~loc.own
    /\ opened' = DeviceClose(opened).open
    /\ pc' = "returned"
    /\ h' = [h EXCEPT !.closes = IF @ < MaxCloses THEN @ + 1 ELSE @]
    /\ UNCHANGED <<model, variant, switch_matrix, conversion_switch_matrix,
                   led_map, loc, eng, rxq, dev, env, out>>

LoopInit ==
    \E unl \in BOOLEAN :
        \/ ReadyWith("PI500PLUS", "ISO", SWITCH_MATRIX_LOOPS, NoTable,
                     BuiltLeds(NumLeds),
                     [DevReady(2, 2, {"Pi 500+ Keyboard", "ISO"}) EXCEPT
                         !.unlocked = unl, !.rows = PI500_ROWS],
                     [HistInit(0) EXCEPT !.was_opened = TRUE])
        \/ ReadyWith("PI500", "ISO", SWITCH_MATRIX_PI500,
                     SWITCH_MATRIX_CONVERSION_PI500_ISO, Pi500Leds,
                     [DevReady(2, 2, {"Pi 500 Keyboard"}) EXCEPT
                         !.unlocked = unl, !.rows = PI500_ROWS],
                     [HistInit(0) EXCEPT !.was_opened = TRUE])

LoopNext ==
    \/ SendRaw
    \/ SendCheckFirst
    \/ press_key
    \/ cli_key_watch
    \/ game_main
    \/ random_leds_main
    \/ cli_led_set
    \/ loop_get_number_leds
    \/ loop_send_led_by_idx
    \/ loop_get_unlock_status
    \/ watch_get_current_preset_index
    \/ watch_get_preset
    \/ watch_get_hue
    \/ loop_set_preset
    \/ loop_set_current_preset_index
    \/ loop_frame
    \/ loop_send_leds
    \/ loop_get_switch_matrix_state
    \/ watch_get_keycode
    \/ loop_interrupt
    \/ loop_revert_get_saved_preset_index
    \/ loop_revert_set_current_preset_index
    \/ loop_close_own
    \/ loop_close

LoopSpec == LoopInit /\ [][LoopNext]_vars


(***************************************************************************)
(* Properties.                                                             *)
(***************************************************************************)
InitSites ==
    {"new", "flush", "product", "tables", "i_status", "i_via", "i_vial", "i_fw",
     "i_numleds", "i_ledinfo"}

\* C1: a checked exchange that reads N mismatched responses and then a
\* matching one returns the matching response when N <= 5 and raises the
\* "not responding as expected" error when more than 5 mismatches occur --
\* for every checked command, with or without a subcommand.
C1_CheckedExchange ==
    /\ (eng.checked /\ eng.state = "ret" =>
            Echoes(eng.raw_data, eng.cmd, eng.subcmd) /\ h.nmis <= 5)
    /\ (eng.checked /\ eng.state = "loop" =>
            ~Echoes(eng.raw_data, eng.cmd, eng.subcmd))
    /\ (eng.state = "raised" => h.nmis > 5)

\* C2: whenever _send_check_command returns normally, byte 0 of the returned
\* report is the opcode and, when a subcommand was given, byte 1 is the
\* subcommand.
C2_ReturnedEchoes ==
    eng.checked /\ eng.state = "ret" =>
        /\ eng.raw_data[1] = eng.cmd
        /\ (eng.subcmd # None => eng.raw_data[2] = eng.subcmd)

\* A checked command with a subcommand has returned after being resent
C2_Witness ==
    /\ eng.checked /\ eng.state = "ret"
    /\ eng.subcmd # None
    /\ eng.flush_count >= 2
    /\ h.nmis >= 2

\* C3: within one _send_check_command call the command is written at most 6
\* times (5 resends after the first write) and every resent frame is
\* byte-identical to the first.
C3_BoundedResend ==
    /\ Len(h.frames) <= 6
    /\ \A k \in 1..Len(h.frames) : h.frames[k] = h.frames[1]

\* C4: whenever a request frame is written, every response produced for an
\* earlier write has been read; no unread response is left in the transport.
C4_NoOverlap ==
    /\ ~h.overlap
    /\ (h.wrote => rxq = <<>>)

\* An exchange that was retried after mismatches has returned
C4_Witness ==
    /\ eng.checked /\ eng.state = "ret"
    /\ eng.flush_count >= 1
    /\ Len(h.frames) >= 2

\* C5: the buffer flush runs after the transport is opened and before any
\* request frame is written, it only reads and stops at the first empty read,
\* and no report buffered before the session is taken as a response.
C5_FlushFirst ==
    /\ (pc \in {"new", "flush"} => ~h.wrote)
    /\ (pc = "flush" => opened)
    /\ (pc = "product" =>
            /\ h.flushReads = h.stale0 + 1
            /\ h.stale = 0
            /\ rxq = <<>>)
    /\ ~h.staleRead

\* The flush has drained a transport that held the most stale reports
C5_Witness == pc = "product" /\ h.stale0 = MaxStale /\ h.stale0 > 0 /\ opened

\* The floors of the compatibility gate, on what the keyboard really is
FloorsMet ==
    /\ dev.via # None /\ dev.via >= 9
    /\ dev.vial # None /\ dev.vial >= 4
    /\ dev.fw # <<>>
    /\ (dev.fw[1] > 1 \/ (dev.fw[1] = 1 /\ dev.fw[2] >= 2))

AllReported == dev.via # None /\ dev.vial # None /\ dev.fw # <<>>

\* C6: construction completes only if via >= 9, vial >= 4 and firmware >=
\* (1, 2, 0) in lexicographic order; a floor that is not met raises
\* KeyboardNotCompatibleError; the LED-directory query is issued only after
\* the three floors have passed.
C6_Gate ==
    /\ (pc \notin InitSites /\ pc # "raised" /\ ~loc.restricted => FloorsMet)
    /\ (pc \in {"i_numleds", "i_ledinfo"} => FloorsMet)
    /\ (AllReported /\ ~FloorsMet /\ pc # "i_fw" =>
            pc = "raised" /\ out.error = "KeyboardNotCompatibleError")

\* A session on firmware 2.0.0 (minor below 2, major above 1) is constructed
C6_Witness == pc = "ready" /\ model = "PI500PLUS" /\ dev.fw = <<2, 0, 0>>

\* The scenario of C7: a locked keyboard, keys held on every poll
Scenario == env = "scripted" /\ h.lockedStart /\ ~loc.restricted

\* C7: on a locked keyboard whose polls count 5,4,3,2,1,0 in progress and then
\* report unlocked, unlock() terminates: it leaves the poll loop at the first
\* poll that is not in progress, reports "Keyboard is unlocked" and returns
\* without raising.
C7_UnlockTerminates ==
    /\ [](Scenario /\ pc = "u_request" =>
            <>(pc = "exit" /\ h.ret = "unlocked" /\ out.error = ""))
    /\ [](Scenario /\ pc = "exit" =>
            /\ h.polls = UnlockCounterMax + 2
            /\ "Keyboard is unlocked" \in out.msgs)

\* unlock() has returned in the scenario
C7_Witness ==
    /\ Scenario /\ pc = "exit" /\ h.ret = "unlocked"
    /\ h.polls = UnlockCounterMax + 2

\* C8: unlock() on a keyboard that is already unlocked is a no-op: the live
\* preset index, the presets and the LED directory are as before the call.
C8_AlreadyUnlockedNoop ==
    pc = "exit" /\ h.ret = "already" =>
        /\ dev.cur_idx = h.snap.cur_idx
        /\ dev.saved_idx = h.snap.saved_idx
        /\ dev.presets = h.snap.presets
        /\ Colours(led_map) = h.snap.colours

\* C9: unlock() never returns normally when the final status is not
\* unlocked and not in progress, and "Keyboard unlocked" is never printed
\* while the keyboard is not unlocked.
C9_UnlockFailureRaises ==
    /\ h.ret # "wrong"
    /\ ("Keyboard unlocked" \in out.msgs => dev.unlocked /\ ~dev.in_progress)

RestrictedFrames ==
    {<<CMD_VIAL_COMMAND, VIAL_GET_UNLOCK_STATUS>>,
     <<CMD_VIAL_COMMAND, VIAL_UNLOCK_START>>,
     <<CMD_VIAL_COMMAND, VIAL_UNLOCK_POLL>>}

\* C10: when an unlock is in progress at session start, unlock(restricted)
\* runs before the version queries and until it ends only get_unlock_status,
\* request_unlock and unlock_poll frames are written.
C10_RestrictedResume ==
    /\ (loc.restricted =>
            /\ h.restrFrames \subseteq RestrictedFrames
            /\ dev.via = None /\ dev.vial = None /\ dev.fw = <<>>)
    /\ (h.ipAtStart /\ (dev.via # None \/ dev.vial # None \/ dev.fw # <<>>) =>
            h.resumed)

\* A session on the RGB model has resumed an unlock and been constructed
C10_Witness ==
    /\ h.ipAtStart /\ h.resumed
    /\ model = "PI500PLUS"
    /\ pc = "ready"
    /\ {<<CMD_VIAL_COMMAND, VIAL_UNLOCK_START>>,
        <<CMD_VIAL_COMMAND, VIAL_UNLOCK_POLL>>} \subseteq h.restrFrames


(***************************************************************************)
(* LED directory and direct-LED transfer (LedSpec).                        *)
(***************************************************************************)
\* What a set_led call may change: the colour of one directory entry
SetLedFrame ==
    /\ rxq' = rxq /\ dev' = dev /\ eng' = eng
    /\ h'.log = <<>> /\ h'.wrote = h.wrote /\ h'.frames = h.frames
    /\ Len(led_map') = Len(led_map)
    /\ \A k \in 1..Len(led_map) :
          led_map'[k] = [led_map[k] EXCEPT !.colour = led_map'[k].colour]
    /\ h'.done =>
          /\ led_map'[h'.seti + 1].colour = h'.setc
          /\ \A k \in 1..Len(led_map) : k # h'.seti + 1 => led_map'[k] = led_map[k]
    /\ ~h'.done => led_map' = led_map

\* C11: set_led_by_idx and set_led_by_matrix write no frame and leave the
\* keyboard alone; they change the colour of the addressed directory entry and
\* nothing else of the directory (no other colour, no idx, matrix, flags, x, y)
C11_SetLedOnlyColour ==
    [][(h'.calls # h.calls /\ h'.op \in {"set_led_by_idx", "set_led_by_matrix"})
          => SetLedFrame]_vars

C11_Witness ==
    /\ h.op = "set_led_by_matrix" /\ h.done
    /\ Len(led_map) = OpsNumLeds /\ h.seti = 9
    /\ led_map[10].colour = h.setc /\ h.setc # <<0, 0, 0>>
    /\ dev.leds[10] = <<0, 0, 0>>

RECURSIVE ColourBytes(_, _, _)
\* The colour bytes of entries from + 1 .. from + count of a directory
ColourBytes(leds, from, count) ==
    IF count = 0 THEN <<>>
    ELSE leds[from + 1].colour \o ColourBytes(leds, from + 1, count - 1)

\* Frame j (1-based) of a bulk push of a directory: report id, opcode 0x07,
\* subopcode 0x42, offset (uint16 LE), count, the colours, zero padding
ExpectedFastset(leds, j) ==
    LET off == 9 * (j - 1)
        cnt == IF Len(leds) - off < 9 THEN Len(leds) - off ELSE 9
        used == <<0, 7, 66, off % 256, off \div 256, cnt>> \o ColourBytes(leds, off, cnt)
    IN  used \o [i \in 1..(33 - Len(used)) |-> 0]

\* C12: send_leds on the RGB model writes ceil(n/9) fastset packets with
\* offsets 0, 9, 18, ..., each with count min(9, n - offset) and the colours of
\* its entries in idx order, each fitting the 32-byte payload; afterwards the
\* keyboard holds every colour of the directory
C12_SendLedsPackets ==
    /\ pc = "l_send" =>
          /\ loc.sent < Len(led_map) /\ loc.sent % 9 = 0
          /\ 9 * Len(h.log) <= Len(led_map) + 8
    /\ (h.op = "send_leds" /\ h.done /\ model = "PI500PLUS") =>
          /\ Len(h.log) = (Len(led_map) + 8) \div 9
          /\ \A j \in 1..Len(h.log) :
                /\ h.log[j] = ExpectedFastset(led_map, j)
                /\ Len(h.log[j]) = 33
                /\ h.log[j][6] >= 1 /\ 2 + 3 + 3 * h.log[j][6] <= 32
          /\ dev.leds = Colours(led_map)

C12_Witness ==
    /\ h.op = "send_leds" /\ h.done /\ Len(led_map) = OpsNumLeds
    /\ Len(h.log) = 2 /\ h.log[2][6] = OpsNumLeds - 9
    /\ led_map[10].colour # <<0, 0, 0>> /\ led_map[1].colour # led_map[10].colour

\* C13: set_led_by_idx(i, c); send_leds(); get_current_direct_leds() returns a
\* directory whose entry i has colour c, for every index i of the directory
C13_DirectLedsRoundTrip ==
    h.chain = 3 =>
        /\ h.op = "get_current_direct_leds" /\ h.done
        /\ Len(loc.leds) = Len(led_map)
        /\ loc.leds[h.seti + 1].colour = h.setc
        /\ loc.leds[h.seti + 1].idx = h.seti

C13_Witness ==
    /\ h.chain = 3 /\ Len(loc.leds) = OpsNumLeds /\ h.seti = 9
    /\ h.setc = <<1, 2, 3>> /\ loc.leds[10].colour = <<1, 2, 3>>

\* C14: get_current_direct_leds and get_saved_direct_leds leave the colours of
\* the session's own directory as they were before the call
C14_ReadsIntoFreshCopy ==
    (h.op \in {"get_current_direct_leds", "get_saved_direct_leds"} /\ h.done)
        => Colours(led_map) = h.pre.colours


(***************************************************************************)
(* Presets (PresetSpec).                                                   *)
(***************************************************************************)
\* The operations that write preset slot 7
WritesSlot7 ==
    \/ h.op \in {"set_temp_effect", "set_led_direct_effect"}
    \/ h.op = "set_preset" /\ loc.arg_k = 7

\* What the index queries return is what the keyboard holds
IndexQueriesTrue ==
    /\ (h.op = "get_current_preset_index" /\ h.done) => loc.res = dev.cur_idx
    /\ (h.op = "get_saved_preset_index" /\ h.done) => loc.res = dev.saved_idx

\* C15: set_preset(k, preset with effect e) followed by get_preset(k) returns a
\* preset with effect e, for every slot k in 0..6
C15_PresetEffectRoundTrip ==
    (h.op = "get_preset" /\ h.done /\ loc.arg_k <= 6) =>
        \A w \in h.wrote_presets : w[1] = loc.arg_k => loc.preset.effect = w[2]

C15_Witness ==
    /\ h.op = "get_preset" /\ h.done /\ loc.arg_k = 6
    /\ <<6, 258>> \in h.wrote_presets /\ loc.preset.effect = 258
    /\ loc.preset.speed = 128 /\ loc.preset.sat = 20

\* C16: writing preset slot 7 (set_preset(7, p), set_temp_effect(p),
\* set_led_direct_effect()) leaves the saved preset index as it was, and
\* get_saved_preset_index() returns that index
C16_Slot7Volatile ==
    /\ WritesSlot7 => dev.saved_idx = h.pre.saved_idx
    /\ (h.op = "get_saved_preset_index" /\ h.done) =>
          (loc.res = dev.saved_idx /\ loc.res = h.pre.saved_idx)

C16_Witness ==
    /\ h.op = "set_temp_effect" /\ h.done
    /\ h.pre.cur_idx = 2 /\ dev.cur_idx = 7 /\ dev.saved_idx = 2
    /\ <<7, 258>> \in h.wrote_presets

\* C17: after revert_to_saved_preset() the live index equals the saved index,
\* which is the one saved before the call; a second call changes neither
C17_RevertIdempotent ==
    /\ (h.op = "revert_to_saved_preset" /\ h.done) =>
          /\ dev.cur_idx = dev.saved_idx
          /\ dev.saved_idx = h.pre.saved_idx
          /\ h.rev = 2 => dev.cur_idx = h.pre.cur_idx
    /\ IndexQueriesTrue

C17_Witness ==
    /\ h.op = "revert_to_saved_preset" /\ h.done /\ h.rev = 2 /\ h.calls = 2
    /\ dev.cur_idx = 5 /\ dev.saved_idx = 5

\* The frames set_led_direct_effect writes: slot 7 with effect 1 and
\* fixed_hue 1, then index 7 with persist 0
DirectEffectFrames ==
    <<(<<0, 252, 6, 7, 255, 1, 0, 255, 1, 2, 255, 255>> \o [i \in 1..21 |-> 0]),
      (<<0, 252, 4, 7, 0>> \o [i \in 1..28 |-> 0])>>

\* C18: on the RGB model set_led_direct_effect() writes slot 7 with effect 1
\* and fixed_hue true, then selects index 7 without persisting; slots 0..6 and
\* the saved index stay, the live index is 7 and its effect is direct.  On the
\* PI500 it writes nothing
C18_DirectEffect ==
    (h.op = "set_led_direct_effect" /\ h.done) =>
        IF model = "PI500PLUS"
        THEN /\ h.log = DirectEffectFrames
             /\ dev.cur_idx = 7
             /\ dev.presets[dev.cur_idx][2] = 1 /\ dev.presets[dev.cur_idx][3] = 0
             /\ dev.presets[dev.cur_idx][5] = 1
             /\ \A k \in 0..6 : dev.presets[k] = h.pre.presets[k]
             /\ dev.saved_idx = h.pre.saved_idx
        ELSE /\ h.log = <<>>
             /\ dev.cur_idx = h.pre.cur_idx /\ dev.saved_idx = h.pre.saved_idx
             /\ dev.presets = h.pre.presets

C18_Witness ==
    /\ h.op = "set_led_direct_effect" /\ h.done /\ model = "PI500PLUS"
    /\ h.pre.cur_idx = 2 /\ dev.cur_idx = 7 /\ Len(h.log) = 2


(***************************************************************************)
(* Keymap and switch matrix (KeySpec).                                     *)
(***************************************************************************)
\* The width of a row word for a map of cols columns, in bytes
WordBytes(cols) == IF cols <= 8 THEN 1 ELSE IF cols <= 16 THEN 2 ELSE IF cols <= 24 THEN 3 ELSE 4

\* Bit col of the big-endian word of row `row` in a response, the words
\* starting at byte 2 (0-based) and being w bytes wide
ResponseBit(raw, w, row, col) ==
    (raw[2 + row * w + (w - 1 - col \div 8) + 1] \div (2 ^ (col % 8))) % 2 = 1

\* The positions get_switch_matrix_state has to report for a response
ExpectedActive(raw) ==
    LET cols == 1 + MaxOf({switch_matrix[k][2] : k \in 1..Len(switch_matrix)})
        w == WordBytes(cols)
        on == SelectSeq(switch_matrix, LAMBDA p : ResponseBit(raw, w, p[1], p[2]))
    IN  [k \in 1..Len(on) |->
            IF conversion_switch_matrix = NoTable THEN on[k]
            ELSE conversion_switch_matrix[IndexOf(on[k], switch_matrix)]]

\* C19: get_switch_matrix_state reads one big-endian word per row from byte 2
\* on, 1, 2, 3 or 4 bytes wide by the number of columns of the map, and returns
\* in map order exactly the map positions whose bit is set, in logical
\* coordinates
C19_SwitchMatrixDecoding ==
    (h.op = "get_switch_matrix_state" /\ h.done) =>
        /\ loc.active = ExpectedActive(loc.raw)
        /\ \A k \in 1..Len(switch_matrix) :
              (switch_matrix[k] \in dev.pressed)
                 <=> (\E i \in 1..Len(loc.active) :
                         loc.active[i] = IF conversion_switch_matrix = NoTable
                                         THEN switch_matrix[k]
                                         ELSE conversion_switch_matrix[k])
        /\ Len(loc.active) = Cardinality({k \in 1..Len(switch_matrix) :
                                             switch_matrix[k] \in dev.pressed})

C19_Witness ==
    /\ h.op = "get_switch_matrix_state" /\ h.done
    /\ switch_matrix[2] = <<0, 23>> /\ <<1, 1>> \in dev.pressed
    /\ loc.active = SyntheticConversion

\* C20: set_keycode(p, l, k) followed by get_keycode(p, l) returns k, for every
\* position p of the map, layer l and keycode k
C20_KeycodeRoundTrip ==
    (h.op = "get_keycode" /\ h.done) =>
        \A w \in h.wrote_keys : w[1] = <<loc.arg_m, loc.arg_l>> => loc.res = w[2]

C20_Witness ==
    /\ h.op = "get_keycode" /\ h.done /\ loc.arg_l = 1 /\ loc.res = 4660
    /\ conversion_switch_matrix # NoTable /\ loc.arg_m = <<9, 1>>
    /\ <<(<<(<<9, 1>>), 1>>), 4660>> \in h.wrote_keys

(***************************************************************************)
(* Coordinate conversion of the constructed session.                       *)
(***************************************************************************)
\* The session has its tables: construction is past __init__'s table branch
TablesSet == pc \notin {"new", "flush", "product", "tables"}

C30_Pi500Identity ==
    (TablesSet /\ model = "PI500") =>
        /\ conversion_switch_matrix = NoTable
        /\ \A k \in 1..Len(switch_matrix) :
              LET p == switch_matrix[k]
              IN  /\ ToPhysical(p, switch_matrix, conversion_switch_matrix) = p
                  /\ ToLogical(p, switch_matrix, conversion_switch_matrix) = p

(***************************************************************************)
(* Which exchanges are verified.                                           *)
(***************************************************************************)
\* The commands the claim names as sent without verification
UnverifiedCommands ==
    {<<CMD_VIAL_COMMAND, VIAL_GET_UNLOCK_STATUS>>,
     <<CMD_VIAL_COMMAND, VIAL_UNLOCK_POLL>>,
     <<CMD_VIAL_COMMAND, VIAL_LOCK>>,
     <<CMD_VIAL_COMMAND, VIAL_GET_KEYBOARD_ID>>}

\* C29: get_unlock_status, unlock_poll, lock and get_vial_information are
\* exactly the exchanges that skip the opcode check: each ends after one
\* write and one read whatever the response starts with, and every other
\* operation is a verified exchange
C29_UnverifiedExchanges ==
    eng.state # "idle" =>
        /\ eng.checked <=> <<eng.cmd, eng.subcmd>> \notin UnverifiedCommands
        /\ <<eng.cmd, eng.subcmd>> \in UnverifiedCommands =>
              eng.state = "ret" /\ Len(h.frames) = 1

(***************************************************************************)
(* Local validation (ArgSpec).                                             *)
(***************************************************************************)
\* The call in hand was made with an argument outside the range the API gives
OutOfRangeCall ==
    \/ /\ h.op \in {"set_current_preset_index", "get_preset", "set_preset"}
       /\ loc.arg_k \notin 0..TEMP_PRESET_INDEX
    \/ h.op \in {"set_hue", "set_brightness"} /\ loc.arg_k \notin 0..255
    \/ h.op = "set_keycode" /\ loc.arg_kc \notin 0..65535
    \/ /\ h.op = "set_led_by_matrix"
       /\ \A k \in 1..Len(led_map) : led_map[k].matrix # loc.arg_m

\* C22: a call with an out-of-range argument -- a preset index outside 0..7
\* for set_current_preset_index, get_preset, set_preset; a hue or brightness
\* outside 0..255; a keycode outside 0..0xFFFF; a position the directory does
\* not hold -- raises, and no frame of the call is written
C22_RejectedBeforeWire ==
    OutOfRangeCall => pc = "raised" /\ out.error # "" /\ h.log = <<>>

(***************************************************************************)
(* close() (ArgSpec).                                                      *)
(***************************************************************************)
\* C25: close() releases the transport and is idempotent: a close() of an open
\* session makes one transport call and leaves it closed; a second close(),
\* and a close() of a session whose transport was never opened, make no
\* transport call; no close() raises or touches anything else
C25_CloseIdempotent ==
    /\ [](h.hid_closes <= (IF h.was_opened THEN 1 ELSE 0))
    /\ [](h.closes > 0 => ~opened /\ (h.was_opened => h.hid_closes = 1))
    /\ [][h'.closes # h.closes =>
            /\ out' = out /\ pc' = pc /\ rxq' = rxq /\ dev' = dev
            /\ h'.hid_closes = h.hid_closes + (IF opened THEN 1 ELSE 0)]_vars

\* close() was called twice on a session that was open, and once more on none
C25_Witness ==
    /\ h.closes = 2 /\ h.was_opened /\ h.hid_closes = 1 /\ ~opened
    /\ pc = "ready" /\ out.error = ""

\* close() was called on a session whose transport was never opened
C25_WitnessUnopened == h.closes = 1 /\ ~h.was_opened /\ h.hid_closes = 0

(***************************************************************************)
(* Wire format (ArgSpec).                                                  *)
(***************************************************************************)
\* C27: every frame written is MSG_LEN + 1 = 33 bytes: the report id 0x00, the
\* command bytes, zero padding; a command longer than 32 bytes raises the
\* encoding error and nothing is written
C27_FrameFormat ==
    /\ \A i \in 1..Len(h.log) :
          Len(h.log[i]) = MSG_LEN + 1 /\ h.log[i][1] = 0
    /\ (eng.state # "idle" /\ h.log # <<>>) =>
          LET command == Payload(eng.cmd, eng.subcmd, eng.data)
              f == h.log[Len(h.log)]
          IN  /\ Len(command) <= MSG_LEN
              /\ SubSeq(f, 2, Len(command) + 1) = command
              /\ \A j \in (Len(command) + 2)..(MSG_LEN + 1) : f[j] = 0
    /\ (h.op = "_send_command" /\ Len(loc.raw) > MSG_LEN) =>
          pc = "raised" /\ out.error = "struct.error" /\ h.log = <<>>

\* A command of exactly MSG_LEN bytes has been written
C27_Witness ==
    /\ h.op = "_send_command" /\ Len(loc.raw) = MSG_LEN
    /\ pc = "x_send" /\ eng.state = "ret" /\ Len(h.log) = 1

(***************************************************************************)
(* Discovery (SearchSpec).                                                 *)
(***************************************************************************)
\* The listed descriptors with the vendor id and one of the two product ids
VendorProductMatches ==
    SelectSeq(loc.descs,
              LAMBDA d : d.vendor_id = 11914 /\ d.product_id \in {16, 17})

\* Those of them with the serial, usage page and usage of the configuration
\* interface
FullMatches ==
    SelectSeq(VendorProductMatches,
              LAMBDA d : /\ d.serial_number = "vial:f64c2b3c"
                         /\ d.usage_page = 65376 /\ d.usage = 97)

MultipleWarnings ==
    {"Multiple keyboards found, using the first compatible one.",
     "Multiple keyboards found, using the first one."}

\* C26: _search_devices raises NoKeyboardFoundError exactly when no descriptor
\* has vendor id 0x2e8a with product id 0x0010 or 0x0011; otherwise it raises
\* KeyboardNotCompatibleError exactly when none of those has serial
\* 'vial:f64c2b3c', usage page 0xFF60 and usage 0x61; otherwise it returns the
\* path of the first fully matching descriptor in enumeration order, with a
\* warning when more than one matches
C26_SearchDevices ==
    pc # "search" =>
        /\ out.error = "NoKeyboardFoundError" <=> VendorProductMatches = <<>>
        /\ out.error = "KeyboardNotCompatibleError" <=>
              VendorProductMatches # <<>> /\ FullMatches = <<>>
        /\ FullMatches # <<>> =>
              /\ pc = "new" /\ out.error = ""
              /\ loc.path = FullMatches[1].path
              /\ Len(FullMatches) > 1 <=> out.msgs \cap MultipleWarnings # {}

\* Two configuration interfaces were listed, the PI500PLUS one first
C26_Witness ==
    /\ pc = "new" /\ loc.path = "b" /\ Len(FullMatches) = 2
    /\ out.msgs \cap MultipleWarnings # {}

(***************************************************************************)
(* Effects and presets from the command line (CliSpec).                    *)
(***************************************************************************)
\* The effect id the keyboard holds in slot k
DevPresetEffect(d, k) == UnLE16(Slice(d.presets[k], 1, 3))

\* C23: the skip sentinel 0xFFFF is never made the live effect: no effect,
\* preset set or preset index command that passes validation leaves slot 7
\* holding effect 0xFFFF and selected
C23_SkipNeverLive ==
    ~(dev.cur_idx = TEMP_PRESET_INDEX /\ DevPresetEffect(dev, TEMP_PRESET_INDEX) = 65535)

\* C28: get_supported_effects() terminates whatever the keyboard answers: it
\* does not go on requesting pages forever
C28_EnumerationTerminates == [](pc = "e_page" => <>(pc # "e_page"))

(***************************************************************************)
(* The long-running loops (LoopSpec).                                      *)
(***************************************************************************)
\* C24: a long-running loop (key watch, game, random-leds) that used the LEDs
\* and stopped, on the exit key or on an interrupt, has returned only after
\* it cleared the LEDs, reverted to the saved preset and closed the transport
C24_LoopCleanup ==
    pc = "returned" /\ loc.use_leds /\ loc.stop # ""
        => /\ \A k \in 1..Len(dev.leds) : dev.leds[k] = <<0, 0, 0>>
           /\ dev.cur_idx = dev.saved_idx
           /\ ~opened


\* C31: at most one Device Session holds the transport open at any time (no
\* command opens a second session while main()'s is open), and when the
\* process has returned every session it opened is closed
C31_SingleSession ==
    /\ ~(opened /\ loc.own)
    /\ pc = "returned" => ~opened /\ ~loc.own


(***************************************************************************)
(* Commands without a subcommand.                                          *)
(***************************************************************************)
\* C32: for a checked command sent without a subcommand a response matches
\* iff its first byte is the opcode, on the first read and on every retry
\* read: the exchange goes on resending only while the first byte differs,
\* and returns only a response whose first byte is the opcode
C32_OpcodeOnlyMatch ==
    eng.checked /\ eng.subcmd = None /\ eng.raw_data # <<>> =>
        /\ eng.state = "loop" => eng.raw_data[1] # eng.cmd
        /\ eng.state = "ret" => eng.raw_data[1] = eng.cmd


\* C33: a led set / leds set command that fails on its colour argument has
\* sent no preset write and no preset-index selection: the keyboard's live
\* preset index and its presets are what they were before the command
C33_ValidateBeforeWrite ==
    pc = "returned" /\ loc.prog \in {"led_set", "leds_set"} /\ ~loc.colour_ok
        => dev.cur_idx = h.pre.cur_idx /\ dev.presets = h.pre.presets


(***************************************************************************)
(* The effect enumeration (EffectSpec).                                    *)
(***************************************************************************)
\* The position of the first sentinel of a page, Len(page) + 1 if it has none
FirstSkip(page) ==
    IF \E k \in 1..Len(page) : page[k] = VIALRGB_EFFECT_SKIP
    THEN CHOOSE k \in 1..Len(page) :
            /\ page[k] = VIALRGB_EFFECT_SKIP
            /\ \A j \in 1..(k - 1) : page[j] # VIALRGB_EFFECT_SKIP
    ELSE Len(page) + 1

RECURSIVE DevChain(_, _)
\* What the keyboard lists when its pages are followed from id gt: the ids
\* before the first sentinel, and the ids the pages were asked with
DevChain(d, gt) ==
    LET page == DevEffectPage(d, gt)
        n == FirstSkip(page)
        listed == SubSeq(page, 1, n - 1)
    IN  IF n <= Len(page)
        THEN [listed |-> listed, requests |-> <<gt>>]
        ELSE LET rest == DevChain(d, page[Len(page)])
             IN  [listed |-> listed \o rest.listed,
                  requests |-> <<gt>> \o rest.requests]

GetSupportedReturned ==
    h.op = "get_supported_effects" /\ h.done /\ pc = "ready" /\ eng.state = "idle"

\* C34: get_supported_effects() returns 0 and 0xFFFF followed by exactly the
\* ids the keyboard lists before the first 0xFFFF across the chained pages, in
\* the keyboard's order; the first request carries id 0 and each following one
\* the last id received, little-endian; on the PI500 it raises with no write
C34_SupportedEffects ==
    /\ GetSupportedReturned =>
          LET c == DevChain(dev, 0)
          IN  /\ loc.effects_list = <<0, 65535>> \o c.listed
              /\ Len(h.log) = Len(c.requests)
              /\ \A k \in 1..Len(h.log) :
                    h.log[k] = <<0, CMD_LIGHTING_GET_VALUE, VIALRGB_GET_SUPPORTED,
                                 c.requests[k] % 256, c.requests[k] \div 256>>
                               \o Zeros(MSG_LEN - 4)
    /\ h.op = "get_supported_effects" /\ model = "PI500" =>
          pc = "raised" /\ out.error = "KeyboardNotCompatibleError" /\ h.log = <<>>

C34_Witness ==
    /\ GetSupportedReturned
    /\ dev.paging = "chain"
    /\ Len(h.log) = 3
    /\ Len(loc.effects_list) = 2 * effects_per_page + 3


\* C35: the saved preset index stays within 0..6: no command sends a
\* select-preset request that persists index 7, so the index the keyboard
\* keeps for the next power-up never names the temporary slot
C35_SavedIndexInRange ==
    /\ dev.saved_idx \in 0..(TEMP_PRESET_INDEX - 1)
    /\ ~(eng.state # "idle" /\ eng.cmd = CMD_RPI_COMMAND
           /\ eng.subcmd = RPI_CMD_SET_CURRENT_MODE_INDEX
           /\ eng.data = <<TEMP_PRESET_INDEX, 1>>)


(***************************************************************************)
(* The LED directory (DirectorySpec).                                      *)
(***************************************************************************)
\* An entry of the directory without its colour
Geometry(led) ==
    [idx |-> led.idx, matrix |-> led.matrix, flags |-> led.flags,
     x |-> led.x, y |-> led.y]

\* C36: after construction and any sequence of set_led, send, bulk-pull and
\* rgb_clear the LED directory keeps its length and order: the entry at
\* position i has idx = i and the matrix, flags, x, y of its construction; on
\* the PI500 there are exactly 96 entries with matrix = [i div 16, i mod 16]
C36_DirectoryShape ==
    /\ model = "PI500PLUS" =>
          /\ Len(led_map) = Len(dev.leds)
          /\ \A k \in 1..Len(led_map) :
                /\ led_map[k].idx = k - 1
                /\ Geometry(led_map[k]) = Geometry(BuiltLeds(Len(dev.leds))[k])
    /\ model = "PI500" =>
          /\ Len(led_map) = 96
          /\ \A k \in 1..Len(led_map) :
                Geometry(led_map[k]) =
                    [idx |-> k - 1, matrix |-> <<(k - 1) \div 16, (k - 1) % 16>>,
                     flags |-> 0, x |-> 0, y |-> 0]

\* Three calls were made, the last a bulk-pull that stored colours that are
\* not the constructed ones
C36_Witness ==
    /\ h.calls = MaxCalls /\ h.done
    /\ h.op \in {"get_saved_direct_leds", "get_current_direct_leds"}
    /\ Len(led_map) > leds_per_packet
    /\ \E k \in 1..Len(led_map) : led_map[k].colour # <<0, 0, 0>>

C36_WitnessPi500 ==
    model = "PI500" /\ h.done /\ h.op = "rgb_clear" /\ h.calls > 1


\* C37: every bulk-pull request of get_current_direct_leds and
\* get_saved_direct_leds addresses only existing LEDs: for n LEDs the requests
\* are exactly ceil(n / 9), with offsets 0, 9, 18, ..., each with
\* offset + count <= n, and the directory keeps its n entries
C37_BulkPullInRange ==
    h.op \in {"get_current_direct_leds", "get_saved_direct_leds"} =>
        /\ \A j \in 1..Len(h.log) :
              /\ UnLE16(Slice(h.log[j], 3, 5)) = leds_per_packet * (j - 1)
              /\ UnLE16(Slice(h.log[j], 3, 5)) + h.log[j][6] <= Len(led_map)
        /\ h.done => Len(h.log) = (Len(led_map) + leds_per_packet - 1) \div leds_per_packet
        /\ Len(led_map) = Len(h.pre.led_map)

\* The requests and the stored colours alone, without the count of a request
C37_OffsetsAndStores ==
    h.op \in {"get_current_direct_leds", "get_saved_direct_leds"} =>
        /\ \A j \in 1..Len(h.log) :
              UnLE16(Slice(h.log[j], 3, 5)) = leds_per_packet * (j - 1)
        /\ h.done => Len(h.log) = (Len(led_map) + leds_per_packet - 1) \div leds_per_packet
        /\ Len(led_map) = Len(h.pre.led_map)


(***************************************************************************)
(* Read timeouts (TimeoutSpec).                                            *)
(***************************************************************************)
\* C38: a read that times out and returns an empty frame during a checked
\* exchange is treated as a mismatch: the command is resent within the retry
\* bound and, if no matching response arrives, the unresponsive-keyboard
\* error is raised; the timeout surfaces as no other failure
C38_TimeoutIsMismatch ==
    eng.checked /\ eng.state # "idle" /\ eng.raw_data = <<>> =>
        \/ eng.state = "loop" /\ eng.flush_count <= flush_limit
        \/ /\ eng.state = "raised"
           /\ eng.flush_count > flush_limit
           /\ out.error = "KeyboardNotCompatibleError"


(***************************************************************************)
(* Model, variant and switch matrix map of a constructed session.          *)
(***************************************************************************)
\* C39: every successfully constructed session has model PI500 or PI500PLUS
\* and a loaded, non-empty switch matrix map; on the PI500PLUS the variant is
\* ISO, ANSI or JIS; a product string that names the RGB model but no
\* recognised variant fails construction with the unknown-model error
C39_ModelAndMap ==
    /\ pc = "ready" =>
          /\ model \in {"PI500", "PI500PLUS"}
          /\ switch_matrix # NoTable
          /\ model = "PI500PLUS" => variant \in {"ISO", "ANSI", "JIS"}
    /\ (dev.product = {"Pi 500+ Keyboard"} /\ pc \notin {"new", "flush", "product"}) =>
          pc = "raised" /\ "Unknown keyboard model" \in out.msgs


\* A session constructed over a PI500PLUS whose product string names no variant
VariantlessSession ==
    /\ pc = "ready" /\ model = "PI500PLUS" /\ variant = "None"
    /\ switch_matrix = NoTable /\ Len(led_map) > 0


(***************************************************************************)
(* Calls on a closed session (ClosedSpec).                                 *)
(***************************************************************************)
\* A call made after close() ended with the transport's error
FailedOnClosed ==
    ~opened /\ h.closes > 0 /\ pc = "raised" /\ out.error = "HIDException"

\* C40: after close() every operation that would exchange a frame fails with
\* the transport error 'device closed' and no frame is written or read; the
\* in-memory LED directory is unchanged by the failed call
C40_ClosedSession ==
    /\ ~opened => eng.state = "idle"
    /\ (~opened /\ pc \in CheckedSites \cup RawSites) => ENABLED send_on_closed
    /\ FailedOnClosed =>
          /\ "device closed" \in out.msgs
          /\ h.log = <<>>
          /\ led_map = h.pre.led_map

\* The same for every operation but rgb_clear
C40_ExceptRgbClear ==
    /\ ~opened => eng.state = "idle"
    /\ (~opened /\ pc \in CheckedSites \cup RawSites) => ENABLED send_on_closed
    /\ (FailedOnClosed /\ h.op # "rgb_clear") =>
          /\ "device closed" \in out.msgs
          /\ h.log = <<>>
          /\ led_map = h.pre.led_map

====
